---- MODULE Spec2Model ----
(***************************************************************************)
(* A model of psutils' pstops: the page-specification and page-range       *)
(* parsers (src/psutils/pstops.py), the PageList resolver, the PostScript  *)
(* document scanner and the imposition engine (src/psutils/__init__.py),   *)
(* and the driver loop transform_pages.                                    *)
(*                                                                         *)
(* Texts are sequences of one-character strings.  Real numbers are exact   *)
(* rationals <<num, den>> (den > 0, lowest terms); None is <<>>.           *)
(* The input alphabets used below hold no whitespace, no newline, no "_"   *)
(* inside numbers and none of the letters a, f, y, so Python's int() and   *)
(* float() accept exactly the decimal literals modelled here.              *)
(***************************************************************************)
EXTENDS Integers, Sequences, FiniteSets, TLC

VARIABLES
    \* command-line arguments and input file
    specText, rangeText, odd, even, reverse, width, height, inwidth, inheight,
    draw, infile,
    \* psnup's command line and its locals (None when pstops is run directly)
    args, layout,
    \* control
    pc, exit, err,
    \* parsespecs results
    specs, modulo, flipping,
    \* parserange result / transform_pages' pagerange
    pagerange,
    \* PsDocumentTransform fields and the scanner's locals
    iwidth, iheight, use_procset, headerpos, pagescmt, endsetup, beginprocset,
    endprocset, num_pages, sizeheaders, pageptr, nesting, record, lineno,
    \* transform_pages' locals
    page_list, maxpage, pagebase, outputpage, specidx, inpos,
    \* output file and the history of engine calls
    out, calls

argVars  == <<specText, rangeText, odd, even, reverse, width, height, inwidth,
              inheight, draw, infile, args, layout>>
specVars == <<specs, modulo, flipping>>
scanVars == <<iwidth, iheight, use_procset, headerpos, pagescmt, endsetup,
              beginprocset, endprocset, num_pages, sizeheaders, pageptr,
              nesting, record, lineno>>
loopVars == <<page_list, maxpage, pagebase, outputpage, specidx, inpos>>
vars == <<argVars, pc, exit, err, specVars, pagerange, scanVars, loopVars,
          out, calls>>

----------------------------------------------------------------------------
(* Characters, texts and numbers                                           *)

None == <<>>
NoneText == <<"None">>

Digits == {"0", "1", "2", "3", "4", "5", "6", "7", "8", "9"}
LowerLetters == {"a", "b", "c", "d", "e", "f", "g", "h", "i", "j", "k", "l", "m",
                 "n", "o", "p", "q", "r", "s", "t", "u", "v", "w", "x", "y", "z"}
UpperLetters == {"A", "B", "C", "D", "E", "F", "G", "H", "I", "J", "K", "L", "M",
                 "N", "O", "P", "Q", "R", "S", "T", "U", "V", "W", "X", "Y", "Z"}

DigitVal(c) ==
    CASE c = "0" -> 0 [] c = "1" -> 1 [] c = "2" -> 2 [] c = "3" -> 3
      [] c = "4" -> 4 [] c = "5" -> 5 [] c = "6" -> 6 [] c = "7" -> 7
      [] c = "8" -> 8 [] c = "9" -> 9

At(s, i) == IF i \in 1..Len(s) THEN s[i] ELSE ""

Max(a, b) == IF a >= b THEN a ELSE b
Min(a, b) == IF a <= b THEN a ELSE b
Abs(a) == IF a < 0 THEN -a ELSE a

RECURSIVE RunEnd(_, _, _)
\* the index after the longest run of characters of S that starts at i
RunEnd(s, i, S) == IF i <= Len(s) /\ s[i] \in S THEN RunEnd(s, i + 1, S) ELSE i

RECURSIVE DigitsVal(_, _, _)
\* the number written by the digits s[i..j-1]
DigitsVal(s, i, j) ==
    IF j <= i THEN 0 ELSE DigitsVal(s, i, j - 1) * 10 + DigitVal(s[j - 1])

RECURSIVE Pow10(_)
Pow10(k) == IF k <= 0 THEN 1 ELSE 10 * Pow10(k - 1)

RECURSIVE GCD(_, _)
GCD(a, b) == IF b = 0 THEN a ELSE GCD(b, a % b)

Rat(n, d) ==
    LET g == GCD(Abs(n), Abs(d))
        sg == IF d < 0 THEN -1 ELSE 1
    IN  <<(sg * n) \div g, (sg * d) \div g>>
RInt(n) == <<n, 1>>
RMul(x, y) == Rat(x[1] * y[1], x[2] * y[2])
RAdd(x, y) == Rat(x[1] * y[2] + y[1] * x[2], x[2] * y[2])
RSub(x, y) == Rat(x[1] * y[2] - y[1] * x[2], x[2] * y[2])
RDiv(x, y) == Rat(x[1] * y[2], x[2] * y[1])
RLt(x, y) == x[1] * y[2] < y[1] * x[2]
\* min(x, y) of Python: the first argument unless the second is smaller
RMin(x, y) == IF RLt(y, x) THEN y ELSE x

RECURSIVE SortedSeq(_)
\* the elements of a finite set of integers in increasing order
SortedSeq(S) ==
    IF S = {} THEN <<>>
    ELSE LET m == CHOOSE x \in S : \A y \in S : x <= y
         IN  <<m>> \o SortedSeq(S \ {m})

\* str.split / re.split: the pieces of s between the separator positions seps
SplitAt(s, seps) ==
    LET b == <<0>> \o SortedSeq(seps) \o <<Len(s) + 1>>
    IN  [k \in 1..(Len(b) - 1) |-> SubSeq(s, b[k] + 1, b[k + 1] - 1)]

Reverse(s) == [i \in 1..Len(s) |-> s[Len(s) + 1 - i]]

----------------------------------------------------------------------------
(* psutils/__init__.py: strtod, singledimen, PageSpec                      *)

\* the value of a decimal literal: its sign, its digits without the point,
\* and the power of ten they are scaled by
DecVal(neg, mant, e10) ==
    IF e10 >= 0 THEN Rat((IF neg THEN -1 ELSE 1) * mant * Pow10(e10), 1)
    ELSE Rat((IF neg THEN -1 ELSE 1) * mant, Pow10(-e10))

HasExp(s, fe, ej, ee) == At(s, fe) \in {"e", "E"} /\ ee > ej

\* the match found: sign, digits s[i..ie-1], fraction s[ie+1..fe-1], exponent
\* digits s[ej..ee-1]
StrtodVal(s, i, ie, fe, ej, ee) ==
    [ok |-> TRUE,
     num |-> DecVal(At(s, 1) = "-",
                    DigitsVal(s, i, ie) * Pow10(Max(fe - ie - 1, 0))
                        + DigitsVal(s, ie + 1, fe),
                    (IF HasExp(s, fe, ej, ee)
                     THEN (IF At(s, fe + 1) = "-" THEN -1 ELSE 1) * DigitsVal(s, ej, ee)
                     ELSE 0) - Max(fe - ie - 1, 0)),
     end |-> IF HasExp(s, fe, ej, ee) THEN ee ELSE fe]

StrtodExp(s, i, ie, fe, ej) == StrtodVal(s, i, ie, fe, ej, RunEnd(s, ej, Digits))

StrtodFrac(s, i, ie, fe) ==
    StrtodExp(s, i, ie, fe, IF At(s, fe + 1) \in {"-", "+"} THEN fe + 2 ELSE fe + 1)

StrtodInt(s, i, ie) ==
    StrtodFrac(s, i, ie, IF At(s, ie) = "." THEN RunEnd(s, ie + 1, Digits) ELSE ie)

StrtodSign(s, i) ==
    IF At(s, i) \in Digits \/ (At(s, i) = "." /\ At(s, i + 1) \in Digits)
    THEN StrtodInt(s, i, RunEnd(s, i, Digits))
    ELSE [ok |-> FALSE, num |-> None, end |-> 0]

\* strtod_parser: [-+]?(?=\d|\.\d)\d*(?:\.(\d*))?(?:E[-+]?\d+)?  (IGNORECASE),
\* matched at the start of s.  end is the index after the match.
strtod(s) == StrtodSign(s, IF At(s, 1) \in {"-", "+"} THEN 2 ELSE 1)

FloatOf(s, r) ==
    IF r.ok /\ r.end = Len(s) + 1 THEN [err |-> "none", num |-> r.num]
    ELSE [err |-> "ValueError", num |-> None]

\* Python's float(text) on the modelled alphabet: the whole text is a literal
float(s) == FloatOf(s, strtod(s))

IntOfText(s, i) ==
    IF i <= Len(s) /\ RunEnd(s, i, Digits) = Len(s) + 1
    THEN [err |-> "none",
          num |-> (IF At(s, 1) = "-" THEN -1 ELSE 1) * DigitsVal(s, i, Len(s) + 1)]
    ELSE [err |-> "ValueError", num |-> 0]

\* Python's int(text) on the modelled alphabet: [-+]?\d+
int(s) == IntOfText(s, IF At(s, 1) \in {"-", "+"} THEN 2 ELSE 1)

StartsWith(s, p) == Len(s) >= Len(p) /\ SubSeq(s, 1, Len(p)) = p

InchPt == 72
\* 28.346456692913385211 pt per cm = 72 / 2.54 = 3600 / 127
CmPtNum == 3600
CmPtDen == 127
MmPtNum == 360

Dimen(num) == [err |-> "none", num |-> num]

\* singledimen lines 86-105: the unit u that follows the number
DimenUnit(u, num, w, h) ==
    IF StartsWith(u, <<"p", "t">>) THEN Dimen(num)
    ELSE IF StartsWith(u, <<"i", "n">>) THEN Dimen(RMul(num, RInt(InchPt)))
    ELSE IF StartsWith(u, <<"c", "m">>) THEN Dimen(RMul(num, Rat(CmPtNum, CmPtDen)))
    ELSE IF StartsWith(u, <<"m", "m">>) THEN Dimen(RMul(num, Rat(MmPtNum, CmPtDen)))
    ELSE IF StartsWith(u, <<"w">>)
         THEN IF w = None THEN [err |-> "paper size not set", num |-> None]
              ELSE Dimen(RMul(num, w))
    ELSE IF StartsWith(u, <<"h">>)
         THEN IF h = None THEN [err |-> "paper size not set", num |-> None]
              ELSE Dimen(RMul(num, h))
    ELSE IF u # <<>> THEN [err |-> "bad dimension", num |-> None]
    ELSE Dimen(num)

DimenOf(s, r, w, h) ==
    IF ~r.ok THEN [err |-> "ValueError", num |-> None]
    ELSE DimenUnit(SubSeq(s, r.end, Len(s)), r.num, w, h)

singledimen(s, w, h) == DimenOf(s, strtod(s), w, h)

PageSpec ==
    [reversed |-> FALSE, pageno |-> 0, rotate |-> 0, hflip |-> FALSE,
     vflip |-> FALSE, scale |-> RInt(1), xoff |-> RInt(0), yoff |-> RInt(0)]

has_transform(ps) ==
    \/ ps.rotate # 0
    \/ ps.hflip
    \/ ps.vflip
    \/ ps.scale # RInt(1)
    \/ ps.xoff # RInt(0)
    \/ ps.yoff # RInt(0)

\* an index that leaves the page number of the placement out
CycleIndex(ps, maxpg, mod, base) == IF ps.reversed THEN maxpg - base - mod ELSE base

\* an index that counts a reversed cycle from the end of the list itself
IndexFromEnd(ps, maxpg, mod, base) ==
    (IF ps.reversed THEN maxpg - base ELSE base) + ps.pageno

page_index_to_page_number(ps, maxpg, mod, base) ==
    (IF ps.reversed THEN maxpg - base - mod ELSE base) + ps.pageno

----------------------------------------------------------------------------
(* psutils/pstops.py: parsespecs                                           *)

ModChars == {"L", "R", "U", "H", "V", "l", "r", "u", "h", "v"}
DimenChars == Digits \cup {"."} \cup LowerLetters \cup UpperLetters

Lower(c) ==
    CASE c = "L" -> "l" [] c = "R" -> "r" [] c = "U" -> "u"
      [] c = "H" -> "h" [] c = "V" -> "v" [] OTHER -> c

\* the index after the longest run of characters other than ( and ) from i
RECURSIVE NonParenEnd(_, _)
NonParenEnd(s, i) ==
    IF i <= Len(s) /\ s[i] \notin {"(", ")"} THEN NonParenEnd(s, i + 1) ELSE i

FirstColon(s) ==
    IF \E i \in 1..Len(s) : s[i] = ":"
    THEN CHOOSE i \in 1..Len(s) : s[i] = ":" /\ \A j \in 1..(i - 1) : s[j] # ":"
    ELSE 0

SplitModuloAt(s, c) ==
    IF c >= 2
    THEN [has1 |-> TRUE, m1 |-> SubSeq(s, 1, c - 1), m2 |-> SubSeq(s, c + 1, Len(s))]
    ELSE [has1 |-> FALSE, m1 |-> <<>>, m2 |-> s]

\* re.match(r"(?:([^:]+):)?(.*)", s): group 1 is the text before the first
\* colon when that text is not empty.
SplitModulo(s) == SplitModuloAt(s, FirstColon(s))

\* re.split(r",(?![^()]*\))", text): a comma separates unless the next
\* parenthesis after it is a closing one.
SplitPages(s) ==
    SplitAt(s, {i \in 1..Len(s) : s[i] = "," /\ At(s, NonParenEnd(s, i + 1)) # ")"})

SplitPlus(s) == SplitAt(s, {i \in 1..Len(s) : s[i] = "+"})

\* the groups found: (-)? ends before i2, (\d+) is s[i2..i3-1], ([LRUHV]+)? is
\* s[i3..i4-1], @([^()]+) is s[i4+1..i5-1] when i5 > i4, the offsets are
\* s[i5+1..x1-1] and s[x1+1..y1-1] when i6 > i5
SpecGroups(s, i2, i3, i4, i5, x1, y1, i6) ==
    [ok   |-> i3 > i2 /\ i6 = Len(s) + 1,
     has1 |-> At(s, 1) = "-",
     m2   |-> SubSeq(s, i2, i3 - 1),
     m3   |-> SubSeq(s, i3, i4 - 1),
     has4 |-> i5 > i4,
     m4   |-> SubSeq(s, i4 + 1, i5 - 1),
     has5 |-> i6 > i5,
     m5   |-> SubSeq(s, i5 + 1, x1 - 1),
     m6   |-> SubSeq(s, x1 + 1, y1 - 1)]

\* (?:\((-?[\d.a-z]+),(-?[\d.a-z]+)\))? at i5, with the first offset's
\* characters at x0..x1-1 and the second's at y0..y1-1
SpecOffsets(s, i2, i3, i4, i5, x0, x1, y0, y1) ==
    SpecGroups(s, i2, i3, i4, i5, x1, y1,
               IF /\ At(s, i5) = "("
                  /\ x1 > x0
                  /\ At(s, x1) = ","
                  /\ y1 > y0
                  /\ At(s, y1) = ")"
               THEN y1 + 1 ELSE i5)

SpecYOff(s, i2, i3, i4, i5, x0, x1, y0) ==
    SpecOffsets(s, i2, i3, i4, i5, x0, x1, y0, RunEnd(s, y0, DimenChars))

SpecXOff(s, i2, i3, i4, i5, x0, x1) ==
    SpecYOff(s, i2, i3, i4, i5, x0, x1, IF At(s, x1 + 1) = "-" THEN x1 + 2 ELSE x1 + 1)

SpecOpen(s, i2, i3, i4, i5, x0) ==
    SpecXOff(s, i2, i3, i4, i5, x0, RunEnd(s, x0, DimenChars))

\* (?:@([^()]+))? at i4: the scale text ends before se
SpecScale(s, i2, i3, i4, se) ==
    SpecOpen(s, i2, i3, i4, se, IF At(s, se + 1) = "-" THEN se + 2 ELSE se + 1)

SpecMods(s, i2, i3, i4) ==
    SpecScale(s, i2, i3, i4,
              IF At(s, i4) = "@" /\ NonParenEnd(s, i4 + 1) > i4 + 1
              THEN NonParenEnd(s, i4 + 1) ELSE i4)

SpecDigits(s, i2, i3) == SpecMods(s, i2, i3, RunEnd(s, i3, ModChars))

SpecSign(s, i2) == SpecDigits(s, i2, RunEnd(s, i2, Digits))

\* re.match(r"(-)?(\d+)([LRUHV]+)?(?:@([^()]+))?(?:\((-?[\d.a-z]+),(-?[\d.a-z]+)\))?$",
\*          spec_text, re.IGNORECASE | re.ASCII)
MatchSpec(s) == SpecSign(s, IF At(s, 1) = "-" THEN 2 ELSE 1)

AngleOf(c) == CASE c = "l" -> 90 [] c = "r" -> -90 [] c = "u" -> 180

\* lines 85-90: one modifier letter
ApplyMod(ps, c) ==
    IF c \in {"l", "r", "u"} THEN [ps EXCEPT !.rotate = @ + AngleOf(c)]
    ELSE IF c = "h" THEN [ps EXCEPT !.hflip = ~@]
    ELSE IF c = "v" THEN [ps EXCEPT !.vflip = ~@]
    ELSE ps

\* lines 83-90: each L, R, U adds its angle, each H or V toggles its flip
RECURSIVE ApplyMods(_, _)
ApplyMods(ps, mods) ==
    IF mods = <<>> THEN ps
    ELSE ApplyMods(ApplyMod(ps, Lower(Head(mods))), Tail(mods))

\* a parser that leaves a double flip as two flips
KeepFlips(ps) == ps

\* lines 92-94: a double flip is a half turn
FoldFlips(ps) ==
    IF ps.hflip /\ ps.vflip
    THEN [ps EXCEPT !.hflip = FALSE, !.vflip = FALSE, !.rotate = @ + 180]
    ELSE ps

\* a parser that leaves the angle as the modifiers summed it
KeepAngle(ps) == ps

\* line 95
ReduceAngle(ps) == [ps EXCEPT !.rotate = @ % 360]

\* lines 91-95
Normalize(ps) == ReduceAngle(FoldFlips(ps))

\* lines 70-80: the fields set from the groups
SpecOf(m, sc, xo, yo) ==
    [PageSpec EXCEPT !.reversed = m.has1,
                     !.pageno = DigitsVal(m.m2, 1, Len(m.m2) + 1),
                     !.scale = sc, !.xoff = xo, !.yoff = yo]

\* lines 81-98
CheckedSpec(ps, mods, mod) ==
    IF ps.pageno >= mod THEN [err |-> "specerror", spec |-> PageSpec]
    ELSE [err |-> "none", spec |-> Normalize(ApplyMods(ps, mods))]

Failed(e) == [err |-> e, spec |-> PageSpec]

\* lines 75-98, with the scale sc and the offsets xo, yo converted
ConvertedSpec(m, mod, sc, xo, yo) ==
    IF sc.err # "none" THEN Failed(sc.err)
    ELSE IF xo.err # "none" THEN Failed(xo.err)
    ELSE IF yo.err # "none" THEN Failed(yo.err)
    ELSE CheckedSpec(SpecOf(m, sc.num, xo.num, yo.num), m.m3, mod)

\* lines 68-98, with the match m
MatchedSpec(m, mod, w, h) ==
    IF ~m.ok THEN Failed("specerror")
    ELSE ConvertedSpec(m, mod,
                       IF m.has4 THEN float(m.m4) ELSE Dimen(PageSpec.scale),
                       IF m.has5 THEN singledimen(m.m5, w, h) ELSE Dimen(PageSpec.xoff),
                       IF m.has5 THEN singledimen(m.m6, w, h) ELSE Dimen(PageSpec.yoff))

\* lines 63-98, one placement: the first failing step decides the outcome
ParseSpec(spec_text, mod, w, h) == MatchedSpec(MatchSpec(spec_text), mod, w, h)

PageCons(r, rest) ==
    IF r.err # "none" THEN [err |-> r.err, page |-> <<>>]
    ELSE [err |-> rest.err, page |-> <<r.spec>> \o rest.page]

\* lines 60-98: the placements of one output page, in order
RECURSIVE ParsePage(_, _, _, _)
ParsePage(texts, mod, w, h) ==
    IF texts = <<>> THEN [err |-> "none", page |-> <<>>]
    ELSE PageCons(ParseSpec(Head(texts), mod, w, h),
                  ParsePage(Tail(texts), mod, w, h))

PagesCons(r, rest) ==
    IF r.err # "none" THEN [err |-> r.err, pages |-> <<>>]
    ELSE [err |-> rest.err, pages |-> <<r.page>> \o rest.pages]

\* lines 59-99: the output pages, in order
RECURSIVE ParsePages(_, _, _, _)
ParsePages(texts, mod, w, h) ==
    IF texts = <<>> THEN [err |-> "none", pages |-> <<>>]
    ELSE PagesCons(ParsePage(SplitPlus(Head(texts)), mod, w, h),
                   ParsePages(Tail(texts), mod, w, h))

AnyFlip(pages) ==
    \E i \in 1..Len(pages) : \E j \in 1..Len(pages[i]) :
        pages[i][j].hflip \/ pages[i][j].vflip

SpecsResult(md, r) ==
    IF r.err # "none"
    THEN [err |-> r.err, pages |-> <<>>, modulo |-> md, flipping |-> FALSE]
    ELSE [err |-> "none", pages |-> r.pages, modulo |-> md, flipping |-> AnyFlip(r.pages)]

\* lines 54-100, with the modulo converted
SpecsWithModulo(specs_text, md, w, h) ==
    IF md.err # "none"
    THEN [err |-> md.err, pages |-> <<>>, modulo |-> 0, flipping |-> FALSE]
    ELSE SpecsResult(md.num, ParsePages(SplitPages(specs_text), md.num, w, h))

SpecsSplit(m, w, h) ==
    SpecsWithModulo(m.m2, IF m.has1 THEN int(m.m1) ELSE [err |-> "none", num |-> 1], w, h)

parsespecs(s, w, h) == SpecsSplit(SplitModulo(s), w, h)

----------------------------------------------------------------------------
(* psutils/pstops.py: parserange, abs_page; psutils/__init__.py: PageList  *)

Range(start, end, text) == [start |-> start, end |-> end, text |-> text]

\* the groups found: (_?\d+)? is s[1..e1-1] when has1, (-) is s[i2] and
\* (_?\d+) is s[i2+1..e3-1] when has2
RangeGroups(s, has1, e1, i2, has2, e3) ==
    [ok |-> (IF has2 THEN e3 ELSE i2) = Len(s) + 1,
     has1 |-> has1, m1 |-> SubSeq(s, 1, e1 - 1),
     has2 |-> has2, m3 |-> SubSeq(s, i2 + 1, e3 - 1)]

RangeEnd(s, has1, e1, i2, d3, e3) ==
    RangeGroups(s, has1, e1, i2, At(s, i2) = "-" /\ e3 > d3, e3)

RangeDash(s, has1, e1, i2, d3) == RangeEnd(s, has1, e1, i2, d3, RunEnd(s, d3, Digits))

RangeSep(s, has1, e1, i2) ==
    RangeDash(s, has1, e1, i2, IF At(s, i2 + 1) = "_" THEN i2 + 2 ELSE i2 + 1)

RangeStart(s, d1, e1) == RangeSep(s, e1 > d1, e1, IF e1 > d1 THEN e1 ELSE 1)

RangeFirst(s, d1) == RangeStart(s, d1, RunEnd(s, d1, Digits))

\* re.match(r"(_?\d+)?(?:(-)(_?\d+))?$", range_text)
MatchRange(s) == RangeFirst(s, IF At(s, 1) = "_" THEN 2 ELSE 1)

\* int(re.sub("^_", "-", text)) for a text matching _?\d+
RangeInt(t) ==
    IF At(t, 1) = "_" THEN -DigitsVal(t, 2, Len(t) + 1) ELSE DigitsVal(t, 1, Len(t) + 1)

\* lines 111-117, with the match m
MatchedRange(m, range_text) ==
    IF ~m.ok THEN [err |-> "not a page range", r |-> Range(0, 0, range_text)]
    \* start = m[1] or "1"; end = m[1], which is None here: re.sub raises
    ELSE IF ~m.has2 /\ ~m.has1
         THEN [err |-> "TypeError", r |-> Range(0, 0, range_text)]
    ELSE [err |-> "none",
          r |-> Range(IF m.has1 THEN RangeInt(m.m1) ELSE 1,
                      IF m.has2 THEN RangeInt(m.m3) ELSE RangeInt(m.m1),
                      range_text)]

\* lines 106-118, one segment
ParseRange(range_text) ==
    IF range_text = <<"_">> THEN [err |-> "none", r |-> Range(0, 0, range_text)]
    ELSE MatchedRange(MatchRange(range_text), range_text)

RangeCons(r, text, rest) ==
    IF r.err # "none" THEN [err |-> r.err, ranges |-> <<>>, seg |-> text]
    ELSE [err |-> rest.err, ranges |-> <<r.r>> \o rest.ranges, seg |-> rest.seg]

\* lines 105-119: the segments in order; seg is the segment that failed
RECURSIVE ParseRanges(_)
ParseRanges(texts) ==
    IF texts = <<>> THEN [err |-> "none", ranges |-> <<>>, seg |-> <<>>]
    ELSE RangeCons(ParseRange(Head(texts)), Head(texts), ParseRanges(Tail(texts)))

parserange(ranges_text) ==
    ParseRanges(SplitAt(ranges_text, {i \in 1..Len(ranges_text) : ranges_text[i] = ","}))

\* an end-relative page number resolved without the clamp to 1
AbsPageUnclamped(n, total) == IF n < 0 THEN n + total + 1 ELSE n

\* pstops.py lines 229-233
abs_page(n, total) == IF n < 0 THEN Max(n + total + 1, 1) ELSE n

\* an odd/even filter on the 0-based index instead of the page number
SelectedByIndex(currentpg, od, ev) ==
    /\ ~(od /\ ~ev /\ (currentpg - 1) % 2 = 0)
    /\ ~(ev /\ ~od /\ (currentpg - 1) % 2 = 1)

\* PageList.__init__ line 178: the odd/even filter on the page number
Selected(currentpg, od, ev) ==
    /\ ~(od /\ ~ev /\ currentpg % 2 = 0)
    /\ ~(ev /\ ~od /\ currentpg % 2 = 1)

\* lines 175-180: the walk of one range from currentpg
RECURSIVE WalkRange(_, _, _, _, _, _, _)
WalkRange(r, inc, currentpg, total, od, ev, acc) ==
    IF r.end - currentpg = -inc THEN [err |-> "none", pages |-> acc]
    ELSE IF currentpg > total THEN [err |-> "page range invalid", pages |-> acc]
    ELSE WalkRange(r, inc, currentpg + inc, total, od, ev,
                   IF Selected(currentpg, od, ev) THEN Append(acc, currentpg - 1)
                   ELSE acc)

RECURSIVE WalkRanges(_, _, _, _, _)
WalkedRange(w, ranges, total, od, ev) ==
    IF w.err # "none" THEN w ELSE WalkRanges(ranges, total, od, ev, w.pages)

\* lines 172-180: the ranges in order
WalkRanges(ranges, total, od, ev, acc) ==
    IF ranges = <<>> THEN [err |-> "none", pages |-> acc]
    ELSE WalkedRange(WalkRange(Head(ranges),
                               IF Head(ranges).end < Head(ranges).start THEN -1 ELSE 1,
                               Head(ranges).start, total, od, ev, acc),
                     Tail(ranges), total, od, ev)

\* lines 181-182
ReversedList(w, rev) ==
    IF w.err # "none" THEN [err |-> w.err, pages |-> <<>>]
    ELSE [err |-> "none", pages |-> IF rev THEN Reverse(w.pages) ELSE w.pages]

PageList(total_pages, ranges, rev, od, ev) ==
    ReversedList(WalkRanges(ranges, total_pages, od, ev, <<>>), rev)

\* PageList.real_page: self.pages[p], a negative p counting from the end;
\* IndexError gives 0
real_page(pages, p) ==
    IF p \in 0..(Len(pages) - 1) THEN pages[p + 1]
    ELSE IF -p \in 1..Len(pages) THEN pages[Len(pages) + p + 1]
    ELSE 0

----------------------------------------------------------------------------
(* The input file: a sequence of lines, each of a kind the scanner and the *)
(* engine tell apart.  Offsets are byte offsets.                           *)

LineKinds ==
    {"Text",            \* a line that does not start with %%
     "Xform",           \* a line that starts with PStoPSxform
     "Pct",             \* a %% line without a keyword ("%% ...")
     "Other",           \* a %% line with a keyword the scanner ignores
     "Page",            \* %%Page: ...
     "Pages",           \* %%Pages: ...
     "BBox",            \* %%BoundingBox: / HiResBoundingBox: / DocumentPaperSizes: / DocumentMedia:
     "EndComments", "BeginProlog", "EndSetup",
     "BeginDocument",   \* %%BeginDocument: / BeginBinary: / BeginFile:
     "EndDocument",     \* %%EndDocument / EndBinary / EndFile
     "BeginProcSet",    \* %%BeginProcSet: PStoPS 1 15
     "EndProcSet",
     "ProcSetBare",     \* exactly %%BeginProcSet: PStoPS, with no newline
     "Trailer"}         \* %%Trailer / %%EOF

\* a line without a newline can only be the last one
WellFormedFile(f) == \A i \in 1..Len(f) : f[i] = "ProcSetBare" => i = Len(f)

LineLen(kind) == IF kind = "Text" THEN 1 ELSE 2

RECURSIVE LineStart(_, _)
\* the offset of line i (of the end of file for i = Len(f) + 1)
LineStart(f, i) == IF i <= 1 THEN 0 ELSE LineStart(f, i - 1) + LineLen(f[i - 1])

FileSize(f) == LineStart(f, Len(f) + 1)

\* the line that holds offset pos, 0 at or after the end of file
LineAt(f, pos) ==
    IF pos < 0 \/ pos >= FileSize(f) THEN 0
    ELSE CHOOSE i \in 1..Len(f) : LineStart(f, i) <= pos /\ pos < LineStart(f, i + 1)

LineRead(f, pos, i) ==
    IF i = 0 THEN [kind |-> "", pos |-> pos]
    ELSE [kind |-> IF LineStart(f, i) = pos THEN f[i] ELSE "Text",
          pos |-> LineStart(f, i + 1)]

\* infile.readline() at pos: the kind of line read ("" at the end of file,
\* "Text" for the tail of a line) and the position after it
readline(f, pos) == LineRead(f, pos, LineAt(f, pos))

\* a scanner that takes the trailer marker for one more page boundary
IsPageOrTrailer(kind) == kind \in {"Page", "Trailer"}

\* PsDocumentTransform.comment_keyword(line) == b'Page:'
IsPageComment(kind) == kind = "Page"

Item(k, n, l) == [k |-> k, n |-> n, l |-> l]

ReadTo(pos, stop) ==
    [err |-> "none",
     out |-> [i \in 1..(stop - pos) |-> Item("byte", pos + i - 1, <<>>)],
     pos |-> Max(stop, pos)]

\* outfile.write(infile.read(n)) at pos, of a buffered binary file: read(-1)
\* reads to the end, read(n) with n < -1 raises ValueError
Read(f, pos, n) ==
    IF n < -1 THEN [err |-> "ValueError", out |-> <<>>, pos |-> pos]
    ELSE ReadTo(pos, IF n = -1 THEN FileSize(f) ELSE Min(pos + n, FileSize(f)))

Copied(o, pos, ign) == [err |-> "none", out |-> o, pos |-> pos, ign |-> ign]

\* the output o, then what the copy rest did
Join(o, rest) == [rest EXCEPT !.out = o \o @]

RECURSIVE DropBelow(_, _)
\* fcopy lines 421-422
DropBelow(ign, here) ==
    IF ign # <<>> /\ Head(ign) < here THEN DropBelow(Tail(ign), here) ELSE ign

RECURSIVE fcopy(_, _, _, _)
\* fcopy lines 429-430 and the next turn of the loop; pop(0) of an empty
\* list raises IndexError
FcopyPop(f, upto, ign, cp, ln) ==
    IF ign = <<>>
    THEN [err |-> "IndexError", out |-> cp.out, pos |-> ln.pos, ign |-> ign]
    ELSE Join(cp.out, fcopy(f, ln.pos, upto, Tail(ign)))

\* fcopy lines 425-426
FcopySkip(f, upto, ign, cp) == FcopyPop(f, upto, ign, cp, readline(f, cp.pos))

\* fcopy lines 423-424
FcopyUpTo(f, here, upto, ign) ==
    FcopySkip(f, upto, ign,
              IF ign # <<>> THEN Read(f, here, Head(ign) - here)
              ELSE [err |-> "none", out |-> <<>>, pos |-> here])

\* fcopy lines 432-433
FcopyRead(r, ignorelist) ==
    [err |-> r.err, out |-> r.out, pos |-> r.pos, ign |-> ignorelist]

\* PsDocumentTransform.fcopy at position here
fcopy(f, here, upto, ignorelist) ==
    IF ignorelist # <<>> /\ Head(ignorelist) < upto
    THEN FcopyUpTo(f, here, upto, DropBelow(ignorelist, here))
    ELSE FcopyRead(Read(f, here, upto - here), ignorelist)

\* int(x) of a float: truncation towards zero
IntOf(x) == IF x[1] >= 0 THEN x[1] \div x[2] ELSE -((-x[1]) \div x[2])

\* pstops.py lines 32-33: the global scale and rotation handed to the engine
GlobalRotate == 0
GlobalScale == RInt(1)
global_transform == GlobalScale # RInt(1) \/ GlobalRotate # 0

\* __init__ line 237
UseProcset(sp) ==
    \/ global_transform
    \/ \E i \in 1..Len(sp) : Len(sp[i]) > 1 \/ has_transform(sp[i][1])

----------------------------------------------------------------------------
(* PsDocumentTransform.write_header, write_page_comment, write_page        *)

\* the label component of one placement, pstops.py line 268: str(n + 1) is
\* modelled by the number n + 1 >= 1, "*" by Star
Star == 0
PageLabel(n) == IF n >= 0 THEN n + 1 ELSE Star

\* lines 307-309
HeaderMedia ==
    IF width # None /\ height # None
    THEN <<Item("DocumentMedia", 0, <<IntOf(width), IntOf(height)>>),
           Item("BoundingBox", 0, <<IntOf(width), IntOf(height)>>)>>
    ELSE <<>>

\* a header that counts the input pages instead of the output pages
HeaderCountInput(maxpg, mod) == Item("Pages", maxpg, <<>>)

\* lines 310-311
HeaderCount(maxpg, mod) == Item("Pages", (maxpg \div mod) * Len(specs), <<>>)

\* lines 303-311, after the copy c up to the %%Pages: comment
HeaderComments(maxpg, mod, c) ==
    IF c.err # "none" THEN c
    ELSE Copied(c.out \o HeaderMedia \o <<HeaderCount(maxpg, mod)>>,
                readline(infile, c.pos).pos, c.ign)

\* lines 300-311
HeaderPages(maxpg, mod) ==
    IF pagescmt # 0
    THEN HeaderComments(maxpg, mod, fcopy(infile, 0, pagescmt, sizeheaders))
    ELSE Copied(<<>>, 0, sizeheaders)

\* lines 313-315
ProcsetOut ==
    IF use_procset
    THEN <<Item("BeginProcSet", 0, <<>>), Item("EndProcSet", 0, <<>>)>>
    ELSE <<>>

\* lines 325-328
XformOut ==
    IF beginprocset = 0 /\ use_procset
    THEN <<Item("PStoPSxform put", 0, <<>>)>> ELSE <<>>

\* line 331, after the output pre; the ignore list ign is the one line 312 left
HeaderBody(pre, ign, c4) == [Join(pre, c4) EXCEPT !.ign = ign]

\* lines 325-331, after the copy c3 up to the end of the setup section
HeaderXform(pre, ign, c3) ==
    IF c3.err # "none" THEN HeaderBody(pre, ign, c3)
    ELSE HeaderBody(pre \o c3.out \o XformOut, ign,
                    fcopy(infile, c3.pos, pageptr[1], <<>>))

\* line 322, from position pos
HeaderSetup(pre, ign, pos) == HeaderXform(pre, ign, fcopy(infile, pos, endsetup, <<>>))

\* lines 320-322, after the copy c3a up to the procset
HeaderSkip(pre, ign, c3a) ==
    IF c3a.err # "none" THEN HeaderBody(pre, ign, c3a)
    ELSE HeaderSetup(pre \o c3a.out, ign, endprocset)

\* lines 313-331, after the copy c2 up to the end of the header
HeaderProcset(pre, c2) ==
    IF c2.err # "none" THEN Join(pre, c2)
    ELSE IF endprocset # 0 /\ use_procset
    THEN HeaderSkip(pre \o c2.out \o ProcsetOut, c2.ign,
                    fcopy(infile, c2.pos, beginprocset, <<>>))
    ELSE HeaderSetup(pre \o c2.out \o ProcsetOut, c2.ign, c2.pos)

\* lines 312-331, from the position and ignore list that HeaderPages left
HeaderRest(h) ==
    IF h.err # "none" THEN h
    ELSE HeaderProcset(h.out, fcopy(infile, h.pos, headerpos, h.ign))

write_header(maxpg, mod) == HeaderRest(HeaderPages(maxpg, mod))

\* line 337
write_page_comment(pagelabel, n) == Item("Page", n, pagelabel)

\* lines 356-360
TransformHead(ps) ==
    <<Item("PStoPSmatrix setmatrix", 0, <<>>)>>
    \o <<Item("translate", 0, <<ps.xoff, ps.yoff>>)>>
    \o (IF ps.rotate # 0
        THEN <<Item("rotate", (ps.rotate + GlobalRotate) % 360, <<>>)>> ELSE <<>>)

\* lines 361-363
HFlipOut(ps) ==
    IF ps.hflip /\ iwidth # None
    THEN <<Item("hflip", 0, <<RMul(RMul(iwidth, ps.scale), GlobalScale)>>)>>
    ELSE <<>>

\* lines 364-366
VFlipOut(ps) ==
    IF ps.vflip /\ iheight # None
    THEN <<Item("vflip", 0, <<RMul(RMul(iheight, ps.scale), GlobalScale)>>)>>
    ELSE <<>>

\* lines 367-376
TransformTail(ps) ==
    (IF ps.scale # RInt(1)
     THEN <<Item("scale", 0, <<RMul(ps.scale, GlobalScale)>>)>> ELSE <<>>)
    \o <<Item("PStoPSmatrix put", 0, <<>>)>>
    \o (IF iwidth # None
        THEN <<Item("PStoPSclip", 0, <<iwidth, iheight>>)>>
             \o (IF draw[1] > 0 THEN <<Item("stroke", 0, <<draw>>)>> ELSE <<>>)
        ELSE <<>>)

\* an engine that scales and clips before it moves and turns
TransformTailFirst(ps) ==
    IF ~(global_transform \/ has_transform(ps)) THEN [err |-> "none", out |-> <<>>]
    ELSE [err |-> "none",
          out |-> TransformTail(ps) \o TransformHead(ps) \o HFlipOut(ps) \o VFlipOut(ps)]

\* lines 355-376: the transform of one placement; what is written before a
\* failed assertion stays written
TransformOut(ps) ==
    IF ~(global_transform \/ has_transform(ps)) THEN [err |-> "none", out |-> <<>>]
    ELSE IF ps.hflip /\ iwidth = None
    THEN [err |-> "AssertionError", out |-> TransformHead(ps)]
    ELSE IF ps.vflip /\ iheight = None
    THEN [err |-> "AssertionError", out |-> TransformHead(ps) \o HFlipOut(ps)]
    ELSE [err |-> "none",
          out |-> TransformHead(ps) \o HFlipOut(ps) \o VFlipOut(ps) \o TransformTail(ps)]

\* lines 353-354
SaveOut == IF use_procset THEN <<Item("save", 0, <<>>)>> ELSE <<>>

\* an engine that suppresses the page advance of every placement
EnableAlways(more) == <<Item("PStoPSenablepage false", 0, <<>>)>>

\* lines 377-378
EnableOut(more) ==
    IF more THEN <<Item("PStoPSenablepage false", 0, <<>>)>> ELSE <<>>

\* lines 392-393
ConcatOut ==
    IF beginprocset = 0 /\ use_procset
    THEN <<Item("PStoPSxform concat", 0, <<>>)>> ELSE <<>>

\* lines 399-400
RestoreOut == IF use_procset THEN <<Item("restore", 0, <<>>)>> ELSE <<>>

RECURSIVE SearchSetup(_, _)
SearchLine(ln, pos, acc) ==
    IF ln.kind = "" THEN [hang |-> TRUE, out |-> acc, pos |-> pos]
    ELSE IF ln.kind = "Xform" THEN [hang |-> FALSE, out |-> acc, pos |-> ln.pos]
    ELSE SearchSetup(ln.pos, Append(acc, Item("line", pos, <<>>)))

\* lines 381-391: copy lines up to the one that starts with PStoPSxform; at
\* the end of file readline() returns b'' for ever and the loop never ends
SearchSetup(pos, acc) == SearchLine(readline(infile, pos), pos, acc)

Placed(e, o, pos, src) == [err |-> e, out |-> o, pos |-> pos, src |-> src]

\* lines 394-400, after the output pre: body is the copy of the page or the
\* blank page
PlaceBody(pre, body, src) ==
    IF body.err # "none" THEN Placed(body.err, pre \o body.out, body.pos, src)
    ELSE Placed("none", pre \o body.out \o RestoreOut, body.pos, src)

\* lines 379-400, after the output pre: se is the search for the page setup
PlaceSetup(pre, se, rp, inrange, src) ==
    IF se.hang THEN Placed("hang", pre \o se.out, se.pos, src)
    ELSE PlaceBody(pre \o se.out \o ConcatOut,
                   IF inrange THEN fcopy(infile, se.pos, pageptr[rp + 2], <<>>)
                   ELSE Copied(<<Item("showpage", 0, <<>>)>>, se.pos, <<>>),
                   src)

\* lines 353-400, with the input at pos: tr is the transform written
PlaceTransform(ps, more, page_number, rp, inrange, pos, tr, src) ==
    IF tr.err # "none" THEN Placed(tr.err, SaveOut \o tr.out, pos, src)
    ELSE PlaceSetup(SaveOut \o tr.out \o EnableOut(more),
                    IF beginprocset # 0 /\ page_number < Len(page_list) /\ rp < num_pages
                    THEN SearchSetup(pos, <<>>)
                    ELSE [hang |-> FALSE, out |-> <<>>, pos |-> pos],
                    rp, inrange, src)

\* lines 348-400: sk is the line read at the page's offset
PlaceSeek(ps, more, page_number, rp, inrange, sk, src) ==
    IF ~IsPageComment(sk.kind) THEN Placed("AssertionError", <<>>, sk.pos, src)
    ELSE PlaceTransform(ps, more, page_number, rp, inrange, sk.pos, TransformOut(ps), src)

\* lines 344-400: inrange is the test of lines 344 and 394
PlaceReal(ps, more, page_number, rp, inrange, pos) ==
    PlaceSeek(ps, more, page_number, rp, inrange,
              IF inrange THEN readline(infile, pageptr[rp + 1])
              ELSE [kind |-> "Page", pos |-> pos],
              IF inrange THEN rp + 1 ELSE Star)

\* lines 343-400, with the page number of the placement
PlaceNumber(ps, more, page_number, rp, pos) ==
    PlaceReal(ps, more, page_number, rp,
              page_number < Len(page_list) /\ 0 <= rp /\ rp < num_pages, pos)

PlacePage(ps, more, page_number, pos) ==
    PlaceNumber(ps, more, page_number, real_page(page_list, page_number), pos)

\* lines 342-401: placement number j of the page, with the input at pos; src
\* is the 1-based input page copied, Star for a blank
Placement(page, j, maxpg, mod, base, pos) ==
    PlacePage(page[j], j < Len(page),
              page_index_to_page_number(page[j], maxpg, mod, base), pos)

RECURSIVE WritePlacements(_, _, _, _, _, _)
PlacedNext(p, page, j, maxpg, mod, base) ==
    IF p.err # "none" THEN Placed(p.err, p.out, p.pos, <<p.src>>)
    ELSE Join(p.out, [WritePlacements(page, j + 1, maxpg, mod, base, p.pos)
                      EXCEPT !.src = <<p.src>> \o @])

\* lines 341-401: the placements of one output page in order
WritePlacements(page, j, maxpg, mod, base, pos) ==
    IF j > Len(page) THEN Placed("none", <<>>, pos, <<>>)
    ELSE PlacedNext(Placement(page, j, maxpg, mod, base, pos), page, j, maxpg, mod, base)

write_page(page, maxpg, mod, base, pos) == WritePlacements(page, 1, maxpg, mod, base, pos)

\* pstops.py lines 263-269
PageLabels(page, maxpg, mod, base) ==
    [j \in 1..Len(page) |->
        PageLabel(real_page(page_list,
                            page_index_to_page_number(page[j], maxpg, mod, base)))]

----------------------------------------------------------------------------
(* The run of pstops(): one action per step of the driver                  *)

NoErr == [msg |-> "none", text |-> <<>>]
Call(op, n, l) == [op |-> op, n |-> n, l |-> l]

\* die(msg, code) and an uncaught exception end the process
Stop(status, msg, text) ==
    /\ pc' = "exit"
    /\ exit' = status
    /\ err' = [msg |-> msg, text |-> text]

\* the state before main() has done anything
Start ==
    /\ pc = "args" /\ exit = "run" /\ err = NoErr
    /\ specs = <<>> /\ modulo = 0 /\ flipping = FALSE
    /\ pagerange = None
    /\ iwidth = None /\ iheight = None /\ use_procset = FALSE
    /\ headerpos = 0 /\ pagescmt = 0 /\ endsetup = 0 /\ beginprocset = 0
    /\ endprocset = 0 /\ num_pages = 0 /\ sizeheaders = <<>> /\ pageptr = <<>>
    /\ nesting = 0 /\ record = 0 /\ lineno = 1
    /\ page_list = <<>> /\ maxpage = 0 /\ pagebase = 0 /\ outputpage = 0
    /\ specidx = 1 /\ inpos = 0
    /\ out = <<>> /\ calls = <<>>

\* pstops.py line 194: argparse applies type=parserange to --pages; it turns a
\* TypeError or ValueError of the type function into a usage error (status 2)
ParseArgs ==
    /\ pc = "args"
    /\ LET r == parserange(rangeText)
       IN  IF rangeText = NoneText
           THEN pc' = "parsespecs" /\ UNCHANGED <<pagerange, exit, err>>
           ELSE IF r.err = "none"
           THEN pc' = "parsespecs" /\ pagerange' = r.ranges /\ UNCHANGED <<exit, err>>
           ELSE IF r.err = "TypeError"
           THEN Stop("die2", "argparse: invalid parserange value", rangeText)
                /\ UNCHANGED pagerange
           ELSE Stop("die1", r.err, r.seg) /\ UNCHANGED pagerange
    /\ UNCHANGED <<argVars, specVars, scanVars, loopVars, out, calls>>

\* pstops.py line 211
ParseSpecs ==
    /\ pc = "parsespecs"
    /\ LET r == parsespecs(specText, width, height)
       IN  IF r.err = "none"
           THEN /\ pc' = "construct"
                /\ specs' = r.pages /\ modulo' = r.modulo /\ flipping' = r.flipping
                /\ UNCHANGED <<exit, err>>
           ELSE IF r.err = "ValueError"
           THEN Stop("crash", "ValueError", <<>>) /\ UNCHANGED specVars
           ELSE Stop("die1", r.err, <<>>) /\ UNCHANGED specVars
    /\ UNCHANGED <<argVars, pagerange, scanVars, loopVars, out, calls>>

\* PsDocumentTransform.__init__ lines 232-255
Construct ==
    /\ pc = "construct"
    /\ pc' = "scan"
    /\ use_procset' = UseProcset(specs)
    /\ iwidth' = IF inwidth = None /\ width # None THEN width ELSE inwidth
    /\ iheight' = IF inwidth = None /\ width # None THEN height ELSE inheight
    /\ headerpos' = 0 /\ pagescmt' = 0 /\ endsetup' = 0 /\ beginprocset' = 0
    /\ endprocset' = 0 /\ num_pages' = 0 /\ sizeheaders' = <<>> /\ pageptr' = <<>>
    /\ nesting' = 0 /\ record' = 0 /\ lineno' = 1
    /\ UNCHANGED <<argVars, exit, err, specVars, pagerange, loopVars, out, calls>>

\* lines 256-289: one line of the input
ScanLine ==
    /\ pc = "scan"
    /\ lineno <= Len(infile)
    /\ LET kind == infile[lineno]
           next_record == record + LineLen(kind)
           comment == kind \notin {"Text", "Xform"}
           keyword == comment /\ kind # "Pct"
           b1 == keyword /\ nesting = 0 /\ IsPageComment(kind)
           b2 == keyword /\ ~b1 /\ headerpos = 0 /\ width # None /\ kind = "BBox"
           b3 == keyword /\ ~b1 /\ ~b2 /\ headerpos = 0 /\ kind = "Pages"
           b4 == keyword /\ ~b1 /\ ~b2 /\ ~b3 /\ headerpos = 0 /\ kind = "EndComments"
           b04 == b1 \/ b2 \/ b3 \/ b4
           b5 == keyword /\ ~b04 /\ kind = "BeginDocument"
           b6 == keyword /\ ~b04 /\ kind = "EndDocument"
           b7 == keyword /\ ~b04 /\ nesting = 0 /\ kind = "EndSetup"
           b8 == keyword /\ ~b04 /\ nesting = 0 /\ kind = "BeginProlog"
           b9 == keyword /\ ~b04 /\ nesting = 0 /\ kind = "ProcSetBare"
           \* line 282-283: endprocset is None never holds, it starts as 0
           b11 == keyword /\ ~b04 /\ nesting = 0 /\ kind = "Trailer"
       IN  /\ pageptr' = IF b1 THEN Append(pageptr, record) ELSE pageptr
           /\ sizeheaders' = IF b2 THEN Append(sizeheaders, record) ELSE sizeheaders
           /\ pagescmt' = IF b3 THEN record ELSE pagescmt
           /\ headerpos' = IF b4 \/ b8 THEN next_record
                           ELSE IF ~comment /\ headerpos = 0 THEN record
                           ELSE headerpos
           /\ nesting' = IF b5 THEN nesting + 1 ELSE IF b6 THEN nesting - 1 ELSE nesting
           /\ endsetup' = IF b7 THEN record ELSE endsetup
           /\ beginprocset' = IF b9 THEN record ELSE beginprocset
           /\ record' = IF b11 THEN record ELSE next_record
           /\ lineno' = IF b11 THEN Len(infile) + 1 ELSE lineno + 1
    /\ UNCHANGED <<argVars, pc, exit, err, specVars, pagerange, iwidth, iheight,
                   use_procset, endprocset, num_pages, loopVars, out, calls>>

\* lines 290-293
ScanEnd ==
    /\ pc = "scan"
    /\ lineno > Len(infile)
    /\ pc' = "flipcheck"
    /\ num_pages' = Len(pageptr)
    /\ pageptr' = Append(pageptr, record)
    /\ endsetup' = IF endsetup = 0 \/ endsetup > pageptr'[1] THEN pageptr'[1]
                   ELSE endsetup
    /\ UNCHANGED <<argVars, exit, err, specVars, pagerange, iwidth, iheight,
                   use_procset, headerpos, pagescmt, beginprocset, endprocset,
                   sizeheaders, nesting, record, lineno, loopVars, out, calls>>

\* pstops.py lines 225-226
CheckFlipping ==
    /\ pc = "flipcheck"
    /\ IF iwidth = None /\ flipping
       THEN Stop("die1", "input page size must be set when flipping the page", <<>>)
       ELSE pc' = "normalize" /\ UNCHANGED <<exit, err>>
    /\ UNCHANGED <<argVars, specVars, pagerange, scanVars, loopVars, out, calls>>

\* the default range of transform_pages, parserange("1-_1")
AllPages == <<"1", "-", "_", "1">>

\* transform_pages lines 238-246
NormalizeRanges ==
    /\ pc = "normalize"
    /\ pc' = "pagelist"
    /\ LET pr == IF pagerange = None THEN parserange(AllPages).ranges ELSE pagerange
       IN  pagerange' = [i \in 1..Len(pr) |->
                            Range(abs_page(pr[i].start, num_pages),
                                  abs_page(pr[i].end, num_pages), pr[i].text)]
    /\ UNCHANGED <<argVars, exit, err, specVars, scanVars, loopVars, out, calls>>

\* transform_pages lines 249-255
BuildPageList ==
    /\ pc = "pagelist"
    /\ LET r == PageList(num_pages, pagerange, reverse, odd, even)
           n == Len(r.pages)
       IN  IF r.err # "none"
           THEN Stop("die2", r.err, <<>>) /\ UNCHANGED <<page_list, maxpage>>
           ELSE /\ pc' = "header"
                /\ page_list' = r.pages
                /\ maxpage' = n + ((modulo - (n % modulo)) % modulo)
                /\ UNCHANGED <<exit, err>>
    /\ UNCHANGED <<argVars, specVars, pagerange, scanVars, pagebase, outputpage,
                   specidx, inpos, out, calls>>

\* transform_pages lines 258-259
WriteHeader ==
    /\ pc = "header"
    /\ LET h == write_header(maxpage, modulo)
       IN  /\ out' = out \o h.out
           /\ inpos' = h.pos
           /\ sizeheaders' = h.ign
           /\ calls' = Append(calls, Call("write_header", 0, <<>>))
           /\ IF h.err # "none"
              THEN Stop("crash", h.err, <<>>)
              ELSE pc' = "loop" /\ UNCHANGED <<exit, err>>
    /\ pagebase' = 0
    /\ specidx' = 1
    /\ UNCHANGED <<argVars, specVars, pagerange, iwidth, iheight, use_procset,
                   headerpos, pagescmt, endsetup, beginprocset, endprocset,
                   num_pages, pageptr, nesting, record, lineno, page_list,
                   maxpage, outputpage>>

\* a driver that writes the page comment before it counts the page
PageCommentStale ==
    /\ pc = "loop"
    /\ pagebase < maxpage
    /\ pc' = "page"
    /\ outputpage' = outputpage + 1
    /\ out' = Append(out, write_page_comment(
                             PageLabels(specs[specidx], maxpage, modulo, pagebase),
                             outputpage))
    /\ calls' = Append(calls, Call("write_page_comment", outputpage,
                                   PageLabels(specs[specidx], maxpage, modulo, pagebase)))
    /\ UNCHANGED <<argVars, exit, err, specVars, pagerange, scanVars, page_list,
                   maxpage, pagebase, specidx, inpos>>

\* transform_pages lines 260-271: the label and the page comment of the next
\* output page
PageComment ==
    /\ pc = "loop"
    /\ pagebase < maxpage
    /\ pc' = "page"
    /\ outputpage' = outputpage + 1
    /\ LET pagelabel == PageLabels(specs[specidx], maxpage, modulo, pagebase)
       IN  /\ out' = Append(out, write_page_comment(pagelabel, outputpage'))
           /\ calls' = Append(calls, Call("write_page_comment", outputpage', pagelabel))
    /\ UNCHANGED <<argVars, exit, err, specVars, pagerange, scanVars, page_list,
                   maxpage, pagebase, specidx, inpos>>

\* transform_pages lines 274-278: the page itself, then the next page of the
\* cycle or the next cycle
WritePage ==
    /\ pc = "page"
    /\ LET w == write_page(specs[specidx], maxpage, modulo, pagebase, inpos)
       IN  /\ out' = out \o w.out
           /\ inpos' = w.pos
           /\ calls' = Append(calls, Call("write_page", outputpage, w.src))
           /\ IF w.err = "hang" THEN Stop("hang", "page setup not found", <<>>)
              ELSE IF w.err # "none" THEN Stop("crash", w.err, <<>>)
              ELSE pc' = "loop" /\ UNCHANGED <<exit, err>>
    /\ specidx' = IF specidx < Len(specs) THEN specidx + 1 ELSE 1
    /\ pagebase' = IF specidx < Len(specs) THEN pagebase ELSE pagebase + modulo
    /\ UNCHANGED <<argVars, specVars, pagerange, scanVars, page_list, maxpage,
                   outputpage>>

\* transform_pages line 280, finalize lines 403-408
Finalize ==
    /\ pc = "loop"
    /\ pagebase >= maxpage
    /\ pc' = "exit"
    /\ exit' = "ok"
    /\ LET r == Read(infile, pageptr[num_pages + 1], -1)
       IN  out' = out \o r.out /\ inpos' = r.pos
    /\ calls' = Append(calls, Call("finalize", 0, <<>>))
    /\ UNCHANGED <<argVars, err, specVars, pagerange, scanVars, page_list, maxpage,
                   pagebase, outputpage, specidx>>

Next ==
    \/ ParseArgs
    \/ ParseSpecs
    \/ Construct
    \/ ScanLine
    \/ ScanEnd
    \/ CheckFlipping
    \/ NormalizeRanges
    \/ BuildPageList
    \/ WriteHeader
    \/ PageComment
    \/ WritePage
    \/ Finalize

----------------------------------------------------------------------------
(* psutils/psnup.py: the layout search, the page specifications it writes  *)
(* and the run of psnup(), which ends in a call of pstops()                *)

\* the Rectangle of psnup.py's imports: an object with a width and a height
\* that the code assigns to (lines 283-290)
Rectangle(w, h) == [width |-> w, height |-> h]

Transposed(r) == Rectangle(r.height, r.width)

\* lines 229-234: the next exact divisor > n of m and its dividend, or 0, 0
RECURSIVE nextdiv(_, _)
nextdiv(n, m) ==
    IF n < m
    THEN IF m % (n + 1) = 0 THEN <<n + 1, m \div (n + 1)>> ELSE nextdiv(n + 1, m)
    ELSE <<0, 0>>

\* line 267
Scl(lay, hor, ver, iwid, ihgt) ==
    RMin(RDiv(lay.pphgt, RMul(ihgt, RInt(ver))), RDiv(lay.ppwid, RMul(iwid, RInt(hor))))

\* line 268
Waste(lay, hor, ver, iwid, ihgt, scl) ==
    RAdd(RMul(RSub(lay.ppwid, RMul(RMul(scl, iwid), RInt(hor))),
              RSub(lay.ppwid, RMul(RMul(scl, iwid), RInt(hor)))),
         RMul(RSub(lay.pphgt, RMul(RMul(scl, ihgt), RInt(ver))),
              RSub(lay.pphgt, RMul(RMul(scl, ihgt), RInt(ver)))))

\* the waste of the layout hor x ver of pages iwid x ihgt, lines 267-268
WasteOf(lay, hor, ver, iwid, ihgt) ==
    Waste(lay, hor, ver, iwid, ihgt, Scl(lay, hor, ver, iwid, ihgt))

\* a search that keeps the candidate seen last among those below the best
KeepLast(lay, hor, ver, rot, waste) ==
    IF RLt(waste, RInt(args.tolerance))
    THEN [lay EXCEPT !.best = waste, !.horiz = hor, !.vert = ver, !.rotate = rot]
    ELSE lay

\* lines 269-270
KeepBest(lay, hor, ver, rot, waste) ==
    IF RLt(waste, lay.best)
    THEN [lay EXCEPT !.best = waste, !.horiz = hor, !.vert = ver, !.rotate = rot]
    ELSE lay

\* lines 263-270
reduce_waste(lay, hor, ver, iwid, ihgt, rot) ==
    KeepBest(lay, hor, ver, rot, WasteOf(lay, hor, ver, iwid, ihgt))

\* lines 273-276: one turn of the search loop
SearchStep(lay, n) ==
    [reduce_waste(reduce_waste(lay, lay.hor, lay.ver,
                               lay.in_size.width, lay.in_size.height, 0),
                  lay.ver, lay.hor, lay.in_size.height, lay.in_size.width, 1)
        EXCEPT !.hor = nextdiv(lay.hor, n)[1], !.ver = nextdiv(lay.hor, n)[2]]

DigitChar(d) ==
    CASE d = 0 -> "0" [] d = 1 -> "1" [] d = 2 -> "2" [] d = 3 -> "3" [] d = 4 -> "4"
      [] d = 5 -> "5" [] d = 6 -> "6" [] d = 7 -> "7" [] d = 8 -> "8" [] d = 9 -> "9"

\* str(n) of a natural number
RECURSIVE NatText(_)
NatText(n) ==
    IF n < 10 THEN <<DigitChar(n)>> ELSE NatText(n \div 10) \o <<DigitChar(n % 10)>>

\* the nearest integer to n / d for n >= 0, a tie going to the even one
RoundHalfEven(n, d) ==
    IF 2 * (n % d) > d \/ (2 * (n % d) = d /\ (n \div d) % 2 = 1)
    THEN (n \div d) + 1 ELSE n \div d

\* the digits of m millionths
Millionths(m) ==
    NatText(m \div 1000000)
    \o <<".">> \o [i \in 1..6 |-> DigitChar((m \div Pow10(6 - i)) % 10)]

\* format(x, "f"): six digits after the point
FormatF(x) ==
    (IF x[1] < 0 THEN <<"-">> ELSE <<>>)
    \o Millionths(RoundHalfEven(Abs(x[1]) * 1000000, x[2]))

\* str(x) of a float that holds a whole number
StrFloat(x) == NatText(x[1] \div x[2]) \o <<".", "0">>

\* lines 238, 303: the size as psnup writes it for pstops
PaperText(r) == StrFloat(r.width) \o <<"x">> \o StrFloat(r.height)

\* __init__ lines 135-138, for a size the paper command does not know
PaperOf(t) == Rectangle(singledimen(t[1], None, None).num, singledimen(t[2], None, None).num)
parsepaper(paper) == PaperOf(SplitAt(paper, {i \in 1..Len(paper) : paper[i] = "x"}))

\* lines 282-290: a rotated layout swaps the flags and the input size; the
\* output size is the same object when it was set from the input size or the
\* input size from it
Rotated(lay) ==
    IF lay.rotate = 1
    THEN [lay EXCEPT !.topbottom = ~lay.leftright, !.leftright = lay.topbottom,
                     !.rowmajor = ~lay.rowmajor,
                     !.in_size = Transposed(lay.in_size),
                     !.size = IF lay.shared THEN Transposed(lay.in_size) ELSE lay.size]
    ELSE lay

\* lines 293-296
ScaleOf(lay, a) ==
    RMin(RDiv(RSub(lay.pphgt, RMul(RMul(RInt(2), a.border), RInt(lay.vert))),
              RMul(lay.in_size.height, RInt(lay.vert))),
         RDiv(RSub(lay.ppwid, RMul(RMul(RInt(2), a.border), RInt(lay.horiz))),
              RMul(lay.in_size.width, RInt(lay.horiz))))

\* lines 299-301
Shifted(lay, scale) ==
    [lay EXCEPT !.scale = scale,
                !.hshift = RDiv(RSub(RDiv(lay.ppwid, RInt(lay.horiz)),
                                     RMul(lay.in_size.width, scale)), RInt(2)),
                !.vshift = RDiv(RSub(RDiv(lay.pphgt, RInt(lay.vert)),
                                     RMul(lay.in_size.height, scale)), RInt(2))]

\* a column that is counted along the rows whatever the order of the cells
AcrossByRow(lay, page) ==
    IF lay.leftright THEN page % lay.horiz ELSE lay.horiz - 1 - (page % lay.horiz)

\* lines 308-314: the cell of a page
Across(lay, page) ==
    IF lay.leftright
    THEN (IF lay.rowmajor THEN page % lay.horiz ELSE page \div lay.vert)
    ELSE lay.horiz - 1 - (IF lay.rowmajor THEN page % lay.horiz ELSE page \div lay.vert)
Up(lay, page) ==
    IF lay.topbottom
    THEN lay.vert - 1 - (IF lay.rowmajor THEN page \div lay.horiz ELSE page % lay.vert)
    ELSE (IF lay.rowmajor THEN page \div lay.horiz ELSE page % lay.vert)

\* lines 315-318
XOff(lay, a, across) ==
    IF lay.rotate = 1
    THEN RSub(RAdd(a.margin, RDiv(RMul(RInt(across + 1), lay.ppwid), RInt(lay.horiz))),
              lay.hshift)
    ELSE RAdd(RAdd(a.margin, RDiv(RMul(RInt(across), lay.ppwid), RInt(lay.horiz))),
              lay.hshift)
\* line 319
YOff(lay, a, up) ==
    RAdd(RAdd(a.margin, RDiv(RMul(RInt(up), lay.pphgt), RInt(lay.vert))), lay.vshift)

\* line 320
CellText(lay, a, page) ==
    NatText(page) \o (IF lay.rotate = 1 THEN <<"L">> ELSE <<>>)
    \o <<"@">> \o FormatF(lay.scale)
    \o <<"(">> \o FormatF(XOff(lay, a, Across(lay, page)))
    \o <<",">> \o FormatF(YOff(lay, a, Up(lay, page))) \o <<")">>

\* "+".join(specs) for the pages from page on
RECURSIVE CellTexts(_, _, _)
CellTexts(lay, a, page) ==
    IF page >= a.nup - 1 THEN CellText(lay, a, page)
    ELSE CellText(lay, a, page) \o <<"+">> \o CellTexts(lay, a, page + 1)

\* line 323
SpecsText(lay, a) == NatText(a.nup) \o <<":">> \o CellTexts(lay, a, 0)

\* die(msg) of psnup: exit status 1
NupDie(msg) ==
    /\ pc' = "nupexit"
    /\ exit' = "die1"
    /\ err' = [msg |-> msg, text |-> <<>>]

\* lines 163-166
SizeGiven(a) ==
    IF a.width # None /\ a.height # None THEN Rectangle(a.width, a.height) ELSE None

\* lines 167-186: the input size given, or the one read from the document
InSizeGiven(a) ==
    IF a.inwidth # None /\ a.inheight # None THEN Rectangle(a.inwidth, a.inheight)
    ELSE a.docsize

\* lines 205-212: the output size, from the input size or the default paper
SizeOrDefault(a, size, in_size) ==
    IF size # None THEN size ELSE IF in_size # None THEN in_size ELSE a.defaultpaper

\* lines 189-223, with the sizes of lines 163-212: size0 is the output size
\* given, size the one settled; the two sizes are one object when one was set
\* from the other and the flip has not made a new one
Sized(a, size0, size, in_size) ==
    [size |-> IF a.flip THEN Transposed(size) ELSE size,
     in_size |-> IF in_size = None THEN size ELSE in_size,
     shared |-> ~a.flip /\ (in_size = None \/ size0 = None),
     rowmajor |-> ((~a.transpose) # a.rotatedleft) # a.rotatedright,
     leftright |-> ~a.rotatedright,
     topbottom |-> ~a.rotatedleft,
     ppwid |-> RInt(0), pphgt |-> RInt(0), best |-> RInt(0),
     horiz |-> 0, vert |-> 0, rotate |-> 0, hor |-> 0, ver |-> 0,
     scale |-> RInt(0), hshift |-> RInt(0), vshift |-> RInt(0)]

\* lines 160-223: the sizes and the flags
NupSizes ==
    /\ pc = "nup"
    /\ IF SizeGiven(args) = None /\ ((args.width = None) # (args.height = None))
       THEN NupDie("output page width and height must both be set, or neither")
            /\ UNCHANGED layout
       ELSE IF InSizeGiven(args) = None /\ ((args.inwidth = None) # (args.inheight = None))
       THEN NupDie("input page width and height must both be set, or neither")
            /\ UNCHANGED layout
       ELSE IF SizeOrDefault(args, SizeGiven(args), InSizeGiven(args)) = None
       THEN NupDie("output page size not set, and could not get default paper size")
            /\ UNCHANGED layout
       ELSE /\ pc' = "margins"
            /\ layout' = Sized(args, SizeGiven(args),
                               SizeOrDefault(args, SizeGiven(args), InSizeGiven(args)),
                               InSizeGiven(args))
            /\ UNCHANGED <<exit, err>>
    /\ UNCHANGED <<specText, rangeText, odd, even, reverse, width, height, inwidth,
                   inheight, draw, infile, args, specVars, pagerange, scanVars,
                   loopVars, out, calls>>

\* lines 237-258, 272: the usable area and the start of the search
NupMargins ==
    /\ pc = "margins"
    /\ layout' = [layout EXCEPT
                      !.ppwid = RSub(layout.size.width, RMul(args.margin, RInt(2))),
                      !.pphgt = RSub(layout.size.height, RMul(args.margin, RInt(2))),
                      !.best = RInt(args.tolerance), !.hor = 1, !.ver = args.nup]
    /\ IF layout'.ppwid[1] <= 0 \/ layout'.pphgt[1] <= 0
       THEN NupDie("margin is too large")
       ELSE IF RLt(RMin(layout'.ppwid, layout'.pphgt), args.border)
       THEN NupDie("border is too large")
       ELSE pc' = "search" /\ UNCHANGED <<exit, err>>
    /\ UNCHANGED <<specText, rangeText, odd, even, reverse, width, height, inwidth,
                   inheight, draw, infile, args, specVars, pagerange, scanVars,
                   loopVars, out, calls>>

\* lines 273-276: one divisor of the number of pages, upright and rotated
NupCandidates ==
    /\ pc = "search"
    /\ layout.hor # 0
    /\ layout' = SearchStep(layout, args.nup)
    /\ UNCHANGED <<specText, rangeText, odd, even, reverse, width, height, inwidth,
                   inheight, draw, infile, args, pc, exit, err, specVars, pagerange,
                   scanVars, loopVars, out, calls>>

\* lines 279-280
NupChoose ==
    /\ pc = "search"
    /\ layout.hor = 0
    /\ IF layout.best = RInt(args.tolerance)
       THEN NupDie("can't find acceptable layout")
       ELSE pc' = "specs" /\ UNCHANGED <<exit, err>>
    /\ UNCHANGED <<argVars, specVars, pagerange, scanVars, loopVars, out, calls>>

\* lines 238-246, 282-328: the command line of pstops, and its call; --draw 0
\* is the default of pstops
NupSpecs ==
    /\ pc = "specs"
    /\ pc' = "args"
    /\ layout' = Shifted(Rotated(layout), ScaleOf(Rotated(layout), args))
    /\ specText' = SpecsText(layout', args)
    /\ inwidth' = parsepaper(PaperText(layout.in_size)).width
    /\ inheight' = parsepaper(PaperText(layout.in_size)).height
    /\ width' = parsepaper(PaperText(layout'.size)).width
    /\ height' = parsepaper(PaperText(layout'.size)).height
    /\ UNCHANGED <<rangeText, odd, even, reverse, draw, infile, args, exit, err,
                   specVars, pagerange, scanVars, loopVars, out, calls>>

\* lines 328-331: a SystemExit of pstops, whatever its status, becomes
\* die("error running pstops")
NupCaught ==
    /\ pc = "exit"
    /\ args # None
    /\ exit \in {"die1", "die2"}
    /\ NupDie("error running pstops")
    /\ UNCHANGED <<argVars, specVars, pagerange, scanVars, loopVars, out, calls>>

NextNup ==
    \/ NupSizes
    \/ NupMargins
    \/ NupCandidates
    \/ NupChoose
    \/ NupSpecs
    \/ NupCaught
    \/ Next

----------------------------------------------------------------------------
(* PsDocumentTransform.fcopy called on its own: the input file stands at   *)
(* inpos, the list passed is sizeheaders, and the copy goes to out         *)

\* __init__.py lines 418-435
FcopyCall ==
    /\ pc = "fcopy"
    /\ \E upto \in {LineStart(infile, i) : i \in 1..(Len(infile) + 1)} :
          /\ inpos <= upto
          /\ LET r == fcopy(infile, inpos, upto, sizeheaders)
             IN  /\ out' = r.out
                 /\ inpos' = r.pos
                 /\ sizeheaders' = r.ign
                 /\ IF r.err # "none" THEN Stop("crash", r.err, <<>>)
                    ELSE pc' = "exit" /\ exit' = "ok" /\ UNCHANGED err
          /\ calls' = <<Call("tell", inpos, <<>>), Call("fcopy", upto, sizeheaders)>>
    /\ UNCHANGED <<argVars, specVars, pagerange, iwidth, iheight, use_procset,
                   headerpos, pagescmt, endsetup, beginprocset, endprocset,
                   num_pages, pageptr, nesting, record, lineno, page_list,
                   maxpage, pagebase, outputpage, specidx>>

NextCopy == FcopyCall

----------------------------------------------------------------------------
(* Inputs.  Each specification runs the same program on its own family of  *)
(* command lines and input files.                                          *)

MaxSpecLen == 3      \* longest free-form page-specification text
MaxRangeLen == 3     \* longest free-form page-range text
MaxPages == 3        \* most pages of a generated document
MaxLines == 4        \* most lines of a free-form input file

Strs(A, n) == UNION {[1..k -> A] : k \in 0..n}

\* the paper size of the tests' -pa4: 595 x 842 pt
A4Width == 595
A4Height == 842

RECURSIVE Repeat(_, _)
Repeat(s, n) == IF n <= 0 THEN <<>> ELSE s \o Repeat(s, n - 1)

\* a document with a header, n pages of one body line each, and a trailer
PageDoc(n) == <<"EndComments">> \o Repeat(<<"Page", "Text">>, n) \o <<"Trailer">>

Args(st, rt, od, ev, rv, w, h, f) ==
    /\ specText = st /\ rangeText = rt
    /\ odd = od /\ even = ev /\ reverse = rv
    /\ width = w /\ height = h
    /\ inwidth = None /\ inheight = None
    /\ infile = f
    /\ args = None /\ layout = None

\* page specifications: every short text over the grammar's characters, and
\* the specifications of the test suite
SpecChars == {"0", "1", "2", ":", ",", "+", "-", "@", "(", ")", "L", "V", "x"}
TestSpecs ==
    {<<"0", "(", "1", "0", "0", "p", "t", ",", "2", "0", "0", "p", "t", ")">>,
     <<"0", "(", "-", "1", "0", "0", "p", "t", ",", "-", "2", "0", "0", "p", "t", ")">>,
     <<"0", "L", "(", "1", "w", ",", "0", ")", "+", "0", "R", "(", "0", ",", "1", "h", ")">>,
     <<"2", ":", "0", "(", "1", "0", "0", "p", "t", ",", "2", "0", "0", "p", "t", ")", ",",
       "1", "(", "-", "2", "0", "0", "p", "t", ",", "1", "0", "0", "p", "t", ")">>,
     <<"0", "L", "L", "R", "V", "H", "V", "H", "V", "(", "7", "0", "0", "p", "t", ",",
       "0", "p", "t", ")">>,
     <<"f", "o", "o">>,
     <<"2", ":", "0", "L", "@", ".", "7", "(", "2", "1", "c", "m", ",", "0", ")", "+",
       "1", "L", "@", ".", "7", "(", "2", "1", "c", "m", ",", "1", "4", ".", "8", "5",
       "c", "m", ")">>,
     <<"1", "(", "1", "w", ",", "0", ")">>,
     <<"0", "(", "1", "q", ",", "0", ")">>,
     <<"0", "(", "x", ",", "0", ")">>,
     <<"2", ":", "1", "@", ".", "5", "(", "1", "i", "n", ",", "1", "m", "m", ")">>,
     <<"1", "0", ":", "9", "U", "H">>,
     <<"0", "H", "V">>,
     <<"0", "R", "V", "H", "+", "0", "h", "V", "v">>}
SpecTexts == Strs(SpecChars, MaxSpecLen) \cup TestSpecs

InitParse ==
    /\ \E st \in SpecTexts : \E w \in {0, A4Width} :
          Args(st, NoneText, FALSE, FALSE, FALSE,
               IF w = 0 THEN None ELSE RInt(A4Width),
               IF w = 0 THEN None ELSE RInt(A4Height), PageDoc(1))
    /\ draw = RInt(0)
    /\ Start

SpecParse == InitParse /\ [][Next]_vars

\* page ranges: every short text over the grammar's characters, and some
\* longer ones, on documents of 0..MaxPages pages
RangeChars == {"1", "2", "5", "_", "-", ",", "x"}
LongRanges ==
    {<<"1", "-", "_", "1">>, <<"_", "1", "-", "1">>, <<"_", "2", "-", "_", "1">>,
     <<"_", ",", "1", "-", "2">>, <<"2", "-", "1", ",", "_">>,
     <<"1", "-", "2", ",", "2", "-", "1">>, <<"0", "-", "2">>, <<"_", "9", "-", "2">>}
RangeTexts == Strs(RangeChars, MaxRangeLen) \cup LongRanges

InitRange ==
    /\ \/ \E rt \in RangeTexts : \E n \in 0..MaxPages : \E od, ev, rv \in BOOLEAN :
             Args(<<"0">>, rt, od, ev, rv, None, None, PageDoc(n))
       \/ \E od, ev, rv \in BOOLEAN :
             Args(<<"0">>, <<"1", "-", "1", "0">>, od, ev, rv, None, None, PageDoc(10))
    /\ draw = RInt(0)
    /\ Start

SpecRange == InitRange /\ [][Next]_vars

\* input files: every well-formed file of a few lines, rearranged by the
\* identity specification "0" with no page range
FileKinds == {"Text", "Xform", "Page", "EndComments", "BeginDocument", "EndDocument",
              "ProcSetBare", "Trailer"}
Files == {f \in Strs(FileKinds, MaxLines) : WellFormedFile(f)}

InitFile ==
    /\ \E f \in Files : Args(<<"0">>, NoneText, FALSE, FALSE, FALSE, None, None, f)
    /\ draw = RInt(0)
    /\ Start

SpecFile == InitFile /\ [][Next]_vars

\* input files with the markers of the header, the prolog and the setup
\* section, rearranged by the identity specification "0" with no page range
ScanKinds == {"Text", "Page", "EndComments", "BeginProlog", "EndSetup", "BeginDocument",
              "Trailer"}

InitScan ==
    /\ \E f \in Strs(ScanKinds, MaxLines) :
          Args(<<"0">>, NoneText, FALSE, FALSE, FALSE, None, None, f)
    /\ draw = RInt(0)
    /\ Start

SpecScan == InitScan /\ [][Next]_vars

\* calls of fcopy: files of lines of one and two bytes, the input at the
\* start of a line or at the end of the file, and every ascending list of
\* line starts
CopyKinds == {"Text", "BBox"}

\* the ascending lists of elements of the set S of integers
Ascending(S) == {SortedSeq(T) : T \in SUBSET S}

InitCopy ==
    /\ \E f \in Strs(CopyKinds, MaxLines) :
          /\ Args(<<"0">>, NoneText, FALSE, FALSE, FALSE, None, None, f)
          /\ inpos \in {LineStart(f, i) : i \in 1..(Len(f) + 1)}
          /\ sizeheaders \in Ascending({LineStart(f, i) : i \in 1..Len(f)})
    /\ draw = RInt(0)
    /\ pc = "fcopy" /\ exit = "run" /\ err = NoErr
    /\ specs = <<>> /\ modulo = 0 /\ flipping = FALSE
    /\ pagerange = None
    /\ iwidth = None /\ iheight = None /\ use_procset = FALSE
    /\ headerpos = 0 /\ pagescmt = 0 /\ endsetup = 0 /\ beginprocset = 0
    /\ endprocset = 0 /\ num_pages = 0 /\ pageptr = <<>>
    /\ nesting = 0 /\ record = 0 /\ lineno = 1
    /\ page_list = <<>> /\ maxpage = 0 /\ pagebase = 0 /\ outputpage = 0
    /\ specidx = 1
    /\ out = <<>> /\ calls = <<>>

SpecCopy == InitCopy /\ [][NextCopy]_vars

\* whole runs: several specifications, ranges and documents
RunSpecs ==
    {<<"0">>, <<"2", ":", "0", ",", "1">>, <<"2", ":", "0", "+", "1">>,
     <<"2", ":", "-", "1", ",", "-", "0">>, <<"3", ":", "-", "0", "+", "2", "L", ",", "1">>,
     <<"2", ":", "0", "V">>, <<"0", "U", "V", "@", "2">>}
RunRanges ==
    {NoneText, <<"_">>, <<"1", ",", "_">>, <<"2", "-", "1">>, <<"1", "-", "_", "1", ",", "_">>}
RunFiles ==
    {PageDoc(n) : n \in 0..MaxPages}
    \cup {<<"Text", "Pages", "BBox", "EndComments", "Page", "Text", "Page", "Text", "Trailer">>,
          <<"EndComments", "Page", "Xform", "Text", "ProcSetBare">>,
          <<"EndComments", "Page", "Text", "ProcSetBare">>,
          <<"Text", "Page", "Text">>,
          <<"EndComments", "BeginProcSet", "Text", "EndProcSet", "Page", "Text", "Trailer">>}

Init ==
    /\ \E st \in RunSpecs : \E rt \in RunRanges : \E od, rv \in BOOLEAN :
       \E f \in RunFiles : \E w \in {0, A4Width} :
          Args(st, rt, od, FALSE, rv,
               IF w = 0 THEN None ELSE RInt(A4Width),
               IF w = 0 THEN None ELSE RInt(A4Height), f)
    /\ \E d \in {0, 1} : draw = RInt(d)
    /\ Start

Spec == Init /\ [][Next]_vars

\* runs of psnup: the sizes it settles, and the layouts it finds for small
\* sheets and pages
NupArgs(n, w, h, iw, ih, doc, dflt, m, b, t, fl) ==
    [nup |-> n, width |-> w, height |-> h, inwidth |-> iw, inheight |-> ih,
     docsize |-> doc, defaultpaper |-> dflt, margin |-> m, border |-> b,
     tolerance |-> t, transpose |-> fl[1], rotatedleft |-> fl[2],
     rotatedright |-> fl[3], flip |-> fl[4]]

DefaultTolerance == 100000

Opt(x) == IF x = 0 THEN None ELSE RInt(x)

\* the command lines that differ in the sizes given
SizeArgs ==
    {NupArgs(2, Opt(w), Opt(h), Opt(iw), Opt(ih),
             IF doc THEN Rectangle(RInt(2), RInt(3)) ELSE None,
             IF dflt THEN Rectangle(RInt(4), RInt(6)) ELSE None,
             RInt(0), RInt(0), DefaultTolerance, <<FALSE, FALSE, FALSE, fl>>) :
        w \in {0, 4}, h \in {0, 6}, iw \in {0, 2}, ih \in {0, 3},
        doc \in BOOLEAN, dflt \in BOOLEAN, fl \in BOOLEAN}

NupCounts == {1, 2, 3, 4, 6}
Sheets == {<<4, 6>>, <<6, 4>>, <<5, 7>>, <<4, 4>>}
NupFlags ==
    {<<FALSE, FALSE, FALSE, FALSE>>, <<TRUE, FALSE, FALSE, FALSE>>,
     <<FALSE, TRUE, FALSE, FALSE>>, <<FALSE, FALSE, TRUE, FALSE>>,
     <<FALSE, FALSE, FALSE, TRUE>>, <<TRUE, TRUE, TRUE, TRUE>>,
     <<TRUE, TRUE, FALSE, FALSE>>, <<TRUE, FALSE, TRUE, FALSE>>,
     <<FALSE, TRUE, TRUE, FALSE>>}

\* the command lines that differ in the layout asked for
LayoutArgs ==
    {NupArgs(n, RInt(sh[1]), RInt(sh[2]), Opt(iw), Opt((iw * 3) \div 2), None, None,
             RInt(m), RInt(b), t, fl) :
        n \in NupCounts, sh \in Sheets, iw \in {0, 2}, m \in {0, 1, 3},
        b \in {0, 1, 9}, t \in {0, 2, DefaultTolerance}, fl \in NupFlags}

InitNup ==
    /\ args \in SizeArgs \cup LayoutArgs
    /\ layout = None
    /\ specText = <<>> /\ rangeText = NoneText
    /\ odd = FALSE /\ even = FALSE /\ reverse = FALSE
    /\ width = None /\ height = None /\ inwidth = None /\ inheight = None
    /\ draw = RInt(0)
    /\ infile \in {PageDoc(0), PageDoc(2)}
    /\ pc = "nup" /\ exit = "run" /\ err = NoErr
    /\ specs = <<>> /\ modulo = 0 /\ flipping = FALSE
    /\ pagerange = None
    /\ iwidth = None /\ iheight = None /\ use_procset = FALSE
    /\ headerpos = 0 /\ pagescmt = 0 /\ endsetup = 0 /\ beginprocset = 0
    /\ endprocset = 0 /\ num_pages = 0 /\ sizeheaders = <<>> /\ pageptr = <<>>
    /\ nesting = 0 /\ record = 0 /\ lineno = 1
    /\ page_list = <<>> /\ maxpage = 0 /\ pagebase = 0 /\ outputpage = 0
    /\ specidx = 1 /\ inpos = 0
    /\ out = <<>> /\ calls = <<>>

SpecNup == InitNup /\ [][NextNup]_vars

----------------------------------------------------------------------------
(* Properties.  Outcomes of a run, then one section per claim.             *)

\* the page ranges were refused on the command line
RangeRejected ==
    pc = "exit" /\ err.msg \in {"not a page range", "argparse: invalid parserange value"}

\* parsespecs has run
ParseSpecsDone == pc \notin {"args", "parsespecs"} /\ ~RangeRejected

\* specerror(): the usage message, exit status 1
GrammarError == pc = "exit" /\ exit = "die1" /\ err.msg = "specerror"

\* PageList was built
PageListBuilt ==
    \/ pc \in {"header", "loop", "page"}
    \/ pc = "exit" /\ exit \in {"ok", "hang", "crash"} /\ specs # <<>>

\* PageList died: "page range ... is invalid", exit status 2
RangeDied == pc = "exit" /\ exit = "die2" /\ err.msg = "page range invalid"

PageListDone == PageListBuilt \/ RangeDied

Elems(q) == {q[i] : i \in 1..Len(q)}

\* the placement texts of a specification text without its modulo
PlacementTexts(s) == UNION {Elems(SplitPlus(pg)) : pg \in Elems(SplitPages(s))}

\* the modulo a specification text asks for, when it is a number
ModuloOf(m) == IF m.has1 THEN int(m.m1) ELSE [err |-> "none", num |-> 1]

\* some placement of the text has a page number that is not below the modulo
HighPage(s) ==
    /\ ModuloOf(SplitModulo(s)).err = "none"
    /\ \E t \in PlacementTexts(SplitModulo(s).m2) :
          /\ MatchSpec(t).ok
          /\ DigitsVal(MatchSpec(t).m2, 1, Len(MatchSpec(t).m2) + 1)
                >= ModuloOf(SplitModulo(s)).num

\* C1: every PageSpec that parsespecs returns has 0 <= pageno < modulo, and a
\* text with a placement whose pageno >= modulo ends in the GrammarError
C1_PagenoBelowModulo ==
    /\ \A i \in 1..Len(specs) : \A j \in 1..Len(specs[i]) :
          0 <= specs[i][j].pageno /\ specs[i][j].pageno < modulo
    /\ (ParseSpecsDone /\ HighPage(specText)) => GrammarError

\* the text is outside the grammar: a MODULO that is no number, a placement
\* that does not match, or an @SCALE that is no number
OutsideGrammar(s) ==
    \/ SplitModulo(s).has1 /\ int(SplitModulo(s).m1).err # "none"
    \/ \E t \in PlacementTexts(SplitModulo(s).m2) :
          \/ ~MatchSpec(t).ok
          \/ MatchSpec(t).has4 /\ float(MatchSpec(t).m4).err # "none"

\* C2: a specification text outside the grammar, a non-numeric MODULO or
\* @SCALE included, ends in the GrammarError (usage message, exit status 1),
\* never in an unhandled exception
C2_GrammarErrorNotCrash ==
    (ParseSpecsDone /\ OutsideGrammar(specText)) => GrammarError

\* the run of the round trip: specification "0", no range, no flags, no size
IdentityRun ==
    /\ specText = <<"0">> /\ rangeText = NoneText
    /\ ~odd /\ ~even /\ ~reverse /\ width = None

Bytes(a, b) == [i \in 1..(b - a) |-> Item("byte", a + i - 1, <<>>)]

RECURSIVE IdentityPages(_)
\* the page comments and bodies of pages k.. of the input, then its trailer
IdentityPages(k) ==
    IF k > num_pages THEN Bytes(pageptr[num_pages + 1], FileSize(infile))
    ELSE <<Item("Page", k, <<k>>)>>
         \o Bytes(pageptr[k] + LineLen("Page"), pageptr[k + 1])
         \o IdentityPages(k + 1)

\* C3: the identity run on a document of T >= 1 pages ends well with T output
\* pages; after the header the output is, page by page, the page comment and
\* the input bytes from the end of the %%Page: line to the next page record,
\* and nothing else is inserted
C3_RoundTrip ==
    (pc = "exit" /\ IdentityRun /\ num_pages >= 1) =>
        /\ exit = "ok"
        /\ outputpage = num_pages
        /\ Len(out) >= Len(IdentityPages(1))
        /\ SubSeq(out, Len(out) - Len(IdentityPages(1)) + 1, Len(out)) = IdentityPages(1)
        /\ \A i \in 1..(Len(out) - Len(IdentityPages(1))) : out[i].k = "byte"

\* the odd/even filter, on the 1-based number of the 0-based entry e
Keep(e) ==
    IF odd /\ ~even THEN (e + 1) % 2 = 1
    ELSE IF even /\ ~odd THEN (e + 1) % 2 = 0
    ELSE TRUE

\* all the pages of the ranges, in the order written
Unfiltered == PageList(num_pages, pagerange, FALSE, FALSE, FALSE).pages

\* C4: the page list is the pages of the ranges filtered by the odd/even
\* flags on the 1-based page number, reversed as a whole when reverse is set;
\* ten pages, range 1-10, odd only give 0,2,4,6,8, reversed 8,6,4,2,0
C4_FilterThenReverseOnce ==
    PageListBuilt =>
        /\ page_list = IF reverse THEN Reverse(SelectSeq(Unfiltered, Keep))
                       ELSE SelectSeq(Unfiltered, Keep)
        /\ (num_pages = 10 /\ rangeText = <<"1", "-", "1", "0">> /\ odd /\ ~even) =>
              page_list = IF reverse THEN <<8, 6, 4, 2, 0>> ELSE <<0, 2, 4, 6, 8>>

C4_Witness ==
    /\ pc = "header" /\ num_pages = 10 /\ odd /\ ~even /\ reverse
    /\ page_list = <<8, 6, 4, 2, 0>>

\* C5: the range "_" parses to one Range with start = end = 0, and PageList
\* turns it into exactly one blank, whatever the document length and the
\* odd and even flags, without the page-range error
C5_BlankAlwaysAppended ==
    rangeText = <<"_">> =>
        /\ pc # "args" => pagerange = <<Range(0, 0, <<"_">>)>>
        /\ ~RangeDied
        /\ PageListBuilt => page_list = <<-1>>

\* the ranges as parserange returns them, before abs_page
RawRanges ==
    IF rangeText = NoneText THEN parserange(AllPages).ranges
    ELSE parserange(rangeText).ranges

\* a page number relative to the end: negative n is T + 1 + n, at least 1
Resolve(n) == IF n < 0 THEN Max(num_pages + 1 + n, 1) ELSE n

\* some non-blank range steps through a page number above T
Exceeds ==
    \E i \in 1..Len(RawRanges) :
        /\ RawRanges[i].text # <<"_">>
        /\ Max(Resolve(RawRanges[i].start), Resolve(RawRanges[i].end)) > num_pages

\* C6: PageList ends in the page-range error (exit status 2) exactly when a
\* non-blank range, its ends resolved, steps through a page number above T;
\* otherwise every entry that is not a blank is a page index 0..T-1
C6_RangeErrorIffBeyondLast ==
    PageListDone =>
        /\ RangeDied <=> Exceeds
        /\ PageListBuilt =>
              \A k \in 1..Len(page_list) :
                  page_list[k] # -1 => (0 <= page_list[k] /\ page_list[k] < num_pages)

C6_Witness ==
    /\ RangeDied /\ num_pages = 1
    /\ rangeText = <<"_", "9", "-", "2">>
    /\ pagerange = <<Range(1, 2, rangeText)>>

\* C7: every write_page call comes right after one write_page_comment call
\* with the same output index, and the indices of the run are 1, 2, ..., K
C7_PageAfterOneComment ==
    \A i \in 1..Len(calls) :
        /\ calls[i].op = "write_page" =>
              /\ i > 1
              /\ calls[i - 1].op = "write_page_comment"
              /\ calls[i - 1].n = calls[i].n
        /\ calls[i].op = "write_page_comment" =>
              /\ i < Len(calls) => calls[i + 1].op = "write_page"
              /\ calls[i].n = Cardinality({j \in 1..i : calls[j].op = "write_page_comment"})

C7_Witness ==
    /\ pc = "exit" /\ exit = "ok"
    /\ \E i \in 1..Len(calls) : calls[i].op = "write_page" /\ calls[i].n = 3

\* C8: for every placement of every output page, the label in the page
\* comment is * exactly when the placement is written as a blank, and is
\* otherwise the 1-based number of the input page copied for it
C8_LabelIsPlacement ==
    \A i \in 2..Len(calls) :
        (calls[i].op = "write_page" /\ calls[i - 1].op = "write_page_comment") =>
            \A j \in 1..Len(calls[i].l) : calls[i - 1].l[j] = calls[i].l[j]

\* the segments of a range text
Segments(t) == SplitAt(t, {i \in 1..Len(t) : t[i] = ","})

\* a segment that is not START, START-END or _: the empty one included
BadSegment(seg) == seg = <<>> \/ (seg # <<"_">> /\ ~MatchRange(seg).ok)

\* C9: a range text with a segment that is not START, START-END or _ (an
\* empty segment included) ends in the range error that cites the segment,
\* exit status 1, never in an unhandled exception
C9_BadSegmentCited ==
    (pc # "args" /\ rangeText # NoneText
        /\ \E k \in 1..Len(Segments(rangeText)) : BadSegment(Segments(rangeText)[k])) =>
        /\ pc = "exit" /\ exit = "die1" /\ err.msg = "not a page range"
        /\ BadSegment(err.text)
        /\ err.text \in Elems(Segments(rangeText))

\* the specification of the correct-angles test, on A4 paper
AnglesText ==
    <<"0", "L", "(", "1", "w", ",", "0", ")", "+", "0", "R", "(", "0", ",", "1", "h", ")">>

AnglesRun ==
    /\ specText = AnglesText
    /\ width = RInt(A4Width) /\ height = RInt(A4Height)
    /\ ParseSpecsDone

\* C10: "0L(1w,0)+0R(0,1h)" with width 595 and height 842 gives one output
\* page of two placements, rotated by 90 and by 270 (-90 reduced modulo 360),
\* at the offsets (595, 0) and (0, 842)
C10_Angles ==
    AnglesRun =>
        /\ Len(specs) = 1 /\ Len(specs[1]) = 2
        /\ specs[1][1].rotate = 90 /\ specs[1][2].rotate = 270
        /\ specs[1][1].xoff = RInt(A4Width) /\ specs[1][1].yoff = RInt(0)
        /\ specs[1][2].xoff = RInt(0) /\ specs[1][2].yoff = RInt(A4Height)

C10_Witness == AnglesRun /\ pc = "construct" /\ Len(specs) = 1

\* C10 as first stated: the second placement is rotated by -90
C10_AnglesSigned ==
    AnglesRun =>
        /\ Len(specs) = 1 /\ Len(specs[1]) = 2
        /\ specs[1][1].rotate = 90 /\ specs[1][2].rotate = -90
        /\ specs[1][1].xoff = RInt(A4Width) /\ specs[1][1].yoff = RInt(0)
        /\ specs[1][2].xoff = RInt(0) /\ specs[1][2].yoff = RInt(A4Height)

----------------------------------------------------------------------------
(* C11: the exit status of the fatal errors                                *)

\* the process has ended: pstops run directly has exited, psnup has exited,
\* or the pstops that psnup called has returned or raised an exception that
\* psnup does not catch
ProcessEnded ==
    \/ pc = "nupexit"
    \/ pc = "exit" /\ (args = None \/ exit \notin {"die1", "die2"})

\* BoundsError: a page number outside the document, a margin or border that
\* exceeds the sheet, no layout below the tolerance
BoundsMsgs ==
    {"page range invalid", "margin is too large", "border is too large",
     "can't find acceptable layout"}

\* GrammarError and ConfigError: malformed specification or range text, a
\* paper size that is needed and not set
UsageMsgs ==
    {"specerror", "not a page range", "bad dimension", "paper size not set",
     "input page size must be set when flipping the page",
     "output page width and height must both be set, or neither",
     "input page width and height must both be set, or neither",
     "output page size not set, and could not get default paper size"}

\* C11: every BoundsError outcome ends the process with exit status 2 and
\* every GrammarError or ConfigError outcome ends it with exit status 1,
\* when pstops is run directly and when it is run through psnup; under
\* psnup the outcome of pstops is the one it died with before psnup caught it
C11_ExitStatus ==
    [][(ProcessEnded' /\ ~ProcessEnded) =>
          /\ (IF err'.msg = "error running pstops" THEN err.msg ELSE err'.msg)
                \in BoundsMsgs => exit' = "die2"
          /\ (IF err'.msg = "error running pstops" THEN err.msg ELSE err'.msg)
                \in UsageMsgs => exit' = "die1"]_vars

----------------------------------------------------------------------------
(* C12: the layout search of psnup.  The candidates are, for each divisor  *)
(* h of N in increasing order, the upright grid h x N/h and then the       *)
(* rotated one.  The layout chosen has a waste strictly below the          *)
(* tolerance, no candidate has a smaller waste, and it is the earliest of  *)
(* the candidates of that waste; the search fails exactly when no          *)
(* candidate has a waste strictly below the tolerance.                     *)

Divisors(n) == SortedSeq({h \in 1..n : n % h = 0})

\* the i-th candidate in search order
Candidate(n, i) ==
    IF i % 2 = 1
    THEN [horiz |-> Divisors(n)[(i + 1) \div 2],
          vert |-> n \div Divisors(n)[(i + 1) \div 2], rotate |-> 0]
    ELSE [horiz |-> n \div Divisors(n)[i \div 2],
          vert |-> Divisors(n)[i \div 2], rotate |-> 1]

CandidateCount(n) == 2 * Len(Divisors(n))

\* the waste of a candidate: the pages lie on their side in a rotated one
CandidateWaste(c) ==
    IF c.rotate = 0
    THEN WasteOf(layout, c.horiz, c.vert, layout.in_size.width, layout.in_size.height)
    ELSE WasteOf(layout, c.horiz, c.vert, layout.in_size.height, layout.in_size.width)

WasteAt(i) == CandidateWaste(Candidate(args.nup, i))

Acceptable == {i \in 1..CandidateCount(args.nup) : RLt(WasteAt(i), RInt(args.tolerance))}

SearchFailed == pc = "nupexit" /\ err.msg = "can't find acceptable layout"
SearchChose == args # None /\ pc = "specs"

ChosenIs(i) ==
    /\ layout.horiz = Candidate(args.nup, i).horiz
    /\ layout.vert = Candidate(args.nup, i).vert
    /\ layout.rotate = Candidate(args.nup, i).rotate
    /\ layout.best = WasteAt(i)

C12_BestLayout ==
    /\ SearchFailed => Acceptable = {}
    /\ SearchChose =>
          \E i \in Acceptable :
             /\ ChosenIs(i)
             /\ \A j \in 1..CandidateCount(args.nup) : ~RLt(WasteAt(j), WasteAt(i))
             /\ \A j \in 1..(i - 1) : WasteAt(j) # WasteAt(i)

\* a layout was chosen that is neither the first nor the last candidate, and
\* a later candidate wastes as little
C12_Witness ==
    /\ SearchChose
    /\ \E i \in 2..(CandidateCount(args.nup) - 1) :
          /\ ChosenIs(i)
          /\ \E j \in (i + 1)..CandidateCount(args.nup) : WasteAt(j) = WasteAt(i)
          /\ \E j \in 1..CandidateCount(args.nup) : ~RLt(WasteAt(j), RInt(args.tolerance))

\* the search failed although the tolerance is positive
C12_FailWitness ==
    SearchFailed /\ args.tolerance > 0 /\ Acceptable = {}

----------------------------------------------------------------------------
(* C13: the replacement size markers of the header                         *)

\* the header has been written without an error
HeaderWritten == pc \in {"loop", "page"} \/ (pc = "exit" /\ exit = "ok")

\* the output items of kind k
ItemsOf(k) == {i \in 1..Len(out) : out[i].k = k}

\* C13: whenever the caller supplies an output width and height, the written
\* header holds the replacement DocumentMedia and BoundingBox markers for
\* that size exactly once
C13_MediaOnce ==
    (HeaderWritten /\ width # None /\ height # None) =>
        /\ Cardinality(ItemsOf("DocumentMedia")) = 1
        /\ Cardinality(ItemsOf("BoundingBox")) = 1
        /\ \A i \in ItemsOf("DocumentMedia") \cup ItemsOf("BoundingBox") :
              out[i].l = <<IntOf(width), IntOf(height)>>

----------------------------------------------------------------------------
(* C14: the page count of the rewritten %%Pages: marker                    *)

CeilDiv(a, b) == (a + b - 1) \div b

\* C14: in a completed run the count written in the rewritten %%Pages:
\* marker equals ceil(maxpage / modulo) times the number of output-page
\* specifications of a cycle, and equals the number of page-boundary markers
\* the driver has emitted
C14_PagesCount ==
    (pc = "exit" /\ exit = "ok") =>
        \A i \in ItemsOf("Pages") :
            /\ out[i].n = CeilDiv(maxpage, modulo) * Len(specs)
            /\ out[i].n = CeilDiv(Len(page_list), modulo) * Len(specs)
            /\ out[i].n = Cardinality(ItemsOf("Page"))

\* a marker was rewritten for a run of several output pages, one of them
\* with two placements
C14_Witness ==
    /\ pc = "exit" /\ exit = "ok"
    /\ \E i \in ItemsOf("Pages") : out[i].n >= 2
    /\ \E p \in 1..Len(specs) : Len(specs[p]) = 2

----------------------------------------------------------------------------
(* C15: a PStoPS procedure block that the input already contains           *)

\* the lines of the input that open a PStoPS procedure block which a later
\* line closes
OldProcsets ==
    {i \in 1..Len(infile) :
        /\ infile[i] = "BeginProcSet"
        /\ \E j \in (i + 1)..Len(infile) : infile[j] = "EndProcSet"}

\* the line that closes the block opened by line i
OldProcsetEnd(i) ==
    CHOOSE j \in (i + 1)..Len(infile) :
        /\ infile[j] = "EndProcSet"
        /\ \A m \in (i + 1)..(j - 1) : infile[m] # "EndProcSet"

\* the input lines whose first byte has been copied to the output
CopiedLines ==
    {i \in 1..Len(infile) :
        \E j \in ItemsOf("byte") : out[j].n = LineStart(infile, i)}

\* C15: when the input holds a PStoPS procedure block and the run emits its
\* own, the scanner has recorded the span of the old block and the output
\* holds exactly one block: the old one is replaced, not copied
C15_OneProcset ==
    (HeaderWritten /\ use_procset /\ OldProcsets # {}) =>
        /\ \E i \in OldProcsets :
              /\ beginprocset = LineStart(infile, i)
              /\ endprocset = LineStart(infile, OldProcsetEnd(i) + 1)
        /\ Cardinality(ItemsOf("BeginProcSet"))
              + Cardinality(OldProcsets \cap CopiedLines) = 1

----------------------------------------------------------------------------
(* C16: the flipping flag of parsespecs                                    *)

\* parsespecs has returned its result
SpecsAccepted == ParseSpecsDone /\ specs # <<>>

\* some placement of the text has an H or V among its modifiers
FlipUsed(s) ==
    \E t \in PlacementTexts(SplitModulo(s).m2) :
        \E c \in Elems(MatchSpec(t).m3) : c \in {"H", "V", "h", "v"}

\* C16: the flipping flag that parsespecs returns is true exactly when some H
\* or V modifier occurs in the specification text
C16_FlippingIffFlipUsed == SpecsAccepted => (flipping <=> FlipUsed(specText))

----------------------------------------------------------------------------
(* C17: the normal form of the PageSpecs that parsespecs returns           *)

\* the modifiers of placement j of output page i, as the text gives them
ModsOf(s, i, j) == MatchSpec(SplitPlus(SplitPages(SplitModulo(s).m2)[i])[j]).m3

\* how often one of the letters cs occurs among the modifiers
Occurs(mods, cs) == Cardinality({k \in 1..Len(mods) : mods[k] \in cs})

OddCount(mods, cs) == Occurs(mods, cs) % 2 = 1

\* the angle the modifiers sum to: +90 for L, -90 for R, +180 for U, and a
\* half turn when both H and V occur an odd number of times
TurnSum(mods) ==
    90 * Occurs(mods, {"L", "l"}) - 90 * Occurs(mods, {"R", "r"})
    + 180 * Occurs(mods, {"U", "u"})
    + (IF OddCount(mods, {"H", "h"}) /\ OddCount(mods, {"V", "v"}) THEN 180 ELSE 0)

NormalForm(ps, mods) ==
    /\ ps.rotate \in 0..359
    /\ ps.rotate = TurnSum(mods) % 360
    /\ ~(ps.hflip /\ ps.vflip)
    /\ ps.hflip <=> (OddCount(mods, {"H", "h"}) /\ ~OddCount(mods, {"V", "v"}))
    /\ ps.vflip <=> (OddCount(mods, {"V", "v"}) /\ ~OddCount(mods, {"H", "h"}))

\* C17: every PageSpec that parsespecs returns is in normal form: rotate is
\* in [0, 360) and is the sum of the L, R, U turns modulo 360, plus 180 when
\* H and V both occur an odd number of times; hflip and vflip are never both
\* true; hflip (vflip) is true exactly when H (V) occurs an odd number of
\* times and the other flip an even number of times
C17_NormalForm ==
    SpecsAccepted =>
        \A i \in 1..Len(specs) : \A j \in 1..Len(specs[i]) :
            NormalForm(specs[i][j], ModsOf(specText, i, j))

\* a placement whose double flip was folded into its turn, and one that
\* keeps a single flip of three flip letters
C17_Witness ==
    /\ SpecsAccepted
    /\ specText = <<"0", "R", "V", "H", "+", "0", "h", "V", "v">>
    /\ specs[1][1].rotate = 90 /\ ~specs[1][1].hflip /\ ~specs[1][1].vflip
    /\ specs[1][2].hflip /\ ~specs[1][2].vflip

----------------------------------------------------------------------------
(* C18: the order of the operations that write_page emits for a placement  *)

\* every page that write_page was called for has been written completely
PagesWhole == exit \notin {"crash", "hang"}

\* the place of an output item in the fixed order of a placement
OpRank(k) ==
    CASE k = "save" -> 1
      [] k = "PStoPSmatrix setmatrix" -> 2
      [] k = "translate" -> 3
      [] k = "rotate" -> 4
      [] k = "hflip" -> 5
      [] k = "vflip" -> 6
      [] k = "scale" -> 7
      [] k = "PStoPSmatrix put" -> 8
      [] k = "PStoPSclip" -> 9
      [] k = "stroke" -> 10
      [] k = "PStoPSenablepage false" -> 11
      [] k = "line" -> 12
      [] k = "PStoPSxform concat" -> 13
      [] k \in {"byte", "showpage"} -> 14
      [] k = "restore" -> 15
      [] OTHER -> 0

\* the restore that ends the placement whose save is item i, 0 if there is none
RestoreOf(i) ==
    IF \E j \in ItemsOf("restore") : j > i
    THEN CHOOSE j \in ItemsOf("restore") :
            j > i /\ \A m \in ItemsOf("restore") : m > i => j <= m
    ELSE 0

\* the items i..j are in the fixed order; only copied input may repeat
InOrder(i, j) ==
    \A m \in i..(j - 1) :
        \/ OpRank(out[m].k) < OpRank(out[m + 1].k)
        \/ /\ OpRank(out[m].k) = OpRank(out[m + 1].k)
           /\ out[m].k \in {"byte", "line"}

RECURSIVE Flatten(_)
Flatten(pages) == IF pages = <<>> THEN <<>> ELSE Head(pages) \o Flatten(Tail(pages))

\* the placement whose save is item i: a save is written for every
\* placement, and the placements are written cycle after cycle
SpecOfSave(i) ==
    Flatten(specs)[((Cardinality({s \in ItemsOf("save") : s <= i}) - 1)
                    % Len(Flatten(specs))) + 1]

\* the kinds of the items i..j
KindsIn(i, j) == {out[m].k : m \in i..j}

\* the transform between save i and restore j is the one of placement ps
TransformOf(ps, i, j) ==
    /\ has_transform(ps) =>
          {"PStoPSmatrix setmatrix", "translate", "PStoPSmatrix put"}
              \subseteq KindsIn(i, j)
    /\ ("rotate" \in KindsIn(i, j)) <=> (ps.rotate # 0)
    /\ \A m \in i..j : out[m].k = "rotate" =>
          out[m].n = (ps.rotate + GlobalRotate) % 360
    /\ ("hflip" \in KindsIn(i, j)) <=> ps.hflip
    /\ ("vflip" \in KindsIn(i, j)) <=> ps.vflip
    /\ ("scale" \in KindsIn(i, j)) <=> (ps.scale # RInt(1))
    /\ KindsIn(i, j) \cap {"byte", "showpage"} # {}

\* C18: for every placement that write_page has written, the operations are
\* in the fixed order save, reset matrix, translate, rotate, horizontal
\* flip, vertical flip, scale, capture matrix, clip path and stroke,
\* page-advance suppression, page body or blank showpage, restore; the
\* rotate written is (placement angle + global angle) mod 360; and every
\* save is matched by exactly one restore of the same placement
C18_PlacementOrder ==
    PagesWhole =>
        /\ \A i \in ItemsOf("save") :
              /\ RestoreOf(i) # 0
              /\ InOrder(i, RestoreOf(i))
              /\ TransformOf(SpecOfSave(i), i, RestoreOf(i))
        /\ Cardinality(ItemsOf("save")) = Cardinality(ItemsOf("restore"))
        /\ \A i \in 1..Len(out) : OpRank(out[i].k) \in (2..11) \cup {13} =>
              \E s \in ItemsOf("save") : s < i /\ i < RestoreOf(s)

\* a placement was written with a turn, a flip, a scale, a clip path and its
\* stroke
C18_Witness ==
    /\ pc = "exit" /\ exit = "ok"
    /\ \E i \in ItemsOf("save") :
          {"rotate", "vflip", "scale", "PStoPSclip", "stroke", "byte"}
              \subseteq KindsIn(i, RestoreOf(i))

----------------------------------------------------------------------------
(* C19: the page-advance suppression of a composited page                  *)

\* the page-boundary marker of output page p, and the item after its last
OutputPageStart(p) == CHOOSE i \in ItemsOf("Page") : out[i].n = p
OutputPageEnd(p) ==
    IF \E i \in ItemsOf("Page") : out[i].n = p + 1
    THEN OutputPageStart(p + 1)
    ELSE Len(out) + 1

\* the saves of output page p, in order: one for each placement
SavesOfPage(p) ==
    SortedSeq({i \in ItemsOf("save") : OutputPageStart(p) < i /\ i < OutputPageEnd(p)})

\* the pages of the output that write_page has written
WrittenPages ==
    {p \in 1..outputpage : pc # "page" \/ p < outputpage}

\* the specification of output page p
SpecOfPage(p) == specs[((p - 1) % Len(specs)) + 1]

Suppressed(i) == "PStoPSenablepage false" \in KindsIn(i, RestoreOf(i))

\* C19: for every composited output page with k placements the page-advance
\* suppression is written for each of the first k - 1 placements and never
\* for the last one, and whenever k > 1 the procedure block that defines
\* PStoPSenablepage has been written in the header
C19_SuppressAllButLast ==
    PagesWhole =>
        \A p \in WrittenPages :
            /\ Len(SpecOfPage(p)) > 1 =>
                  /\ Len(SavesOfPage(p)) = Len(SpecOfPage(p))
                  /\ \A t \in 1..Len(SavesOfPage(p)) :
                        Suppressed(SavesOfPage(p)[t]) <=> t < Len(SavesOfPage(p))
                  /\ \E b \in ItemsOf("BeginProcSet") : b < OutputPageStart(p)
            /\ Len(SpecOfPage(p)) = 1 =>
                  \A i \in OutputPageStart(p)..(OutputPageEnd(p) - 1) :
                      out[i].k # "PStoPSenablepage false"

\* a page of two placements has been written
C19_Witness ==
    /\ pc = "exit" /\ exit = "ok"
    /\ \E p \in WrittenPages :
          /\ Len(SpecOfPage(p)) = 2
          /\ Suppressed(SavesOfPage(p)[1]) /\ ~Suppressed(SavesOfPage(p)[2])

----------------------------------------------------------------------------
(* C20: the scanner inside an embedded document                            *)

\* the scanner is about to read a line inside a begin/end region that does
\* not itself open or close a region
ScanningNested ==
    /\ pc = "scan" /\ lineno <= Len(infile)
    /\ nesting > 0
    /\ infile[lineno] \notin {"BeginDocument", "EndDocument"}

\* C20: while the nesting counter is greater than 0 the scanner records
\* nothing from the line it reads: no page boundary, no offset of the pages
\* count, no paper-size exclusion, no header end, no setup end, no span of
\* the procedure block, and it does not stop at a trailer
C20_NestedIgnored ==
    [][ScanningNested =>
          /\ UNCHANGED <<pageptr, pagescmt, sizeheaders, headerpos, endsetup,
                         beginprocset, endprocset>>
          /\ lineno' = lineno + 1]_vars

----------------------------------------------------------------------------
(* C21: the page index the scanner builds                                  *)

\* the scanner has read the whole input and the run goes on
ScanDone == pc \in {"flipcheck", "normalize", "pagelist", "header", "loop", "page"}

RECURSIVE Depth(_, _)
\* the number of begin markers less the number of end markers of embedded
\* documents before line i
Depth(f, i) ==
    IF i <= 1 THEN 0
    ELSE Depth(f, i - 1) + (IF f[i - 1] = "BeginDocument" THEN 1
                            ELSE IF f[i - 1] = "EndDocument" THEN -1 ELSE 0)

TopLevel(f, i) == Depth(f, i) = 0

TopTrailers(f) == {i \in 1..Len(f) : f[i] = "Trailer" /\ TopLevel(f, i)}

\* the line of the first top-level trailer marker, Len(f) + 1 without one
TrailerLine(f) ==
    IF TopTrailers(f) = {} THEN Len(f) + 1
    ELSE CHOOSE i \in TopTrailers(f) : \A j \in TopTrailers(f) : i <= j

TopPages(f) == {i \in 1..(TrailerLine(f) - 1) : f[i] = "Page" /\ TopLevel(f, i)}

\* C21: after the scan pageptr has num_pages + 1 entries, strictly
\* increasing; the first num_pages are the offsets of the top-level %%Page:
\* lines before the first top-level trailer marker, in order, and the last
\* is the offset of that marker, or the end of the file without one
C21_PageIndex ==
    ScanDone =>
       /\ Len(pageptr) = num_pages + 1
       /\ \A i \in 1..num_pages : pageptr[i] < pageptr[i + 1]
       /\ SubSeq(pageptr, 1, num_pages)
             = SortedSeq({LineStart(infile, i) : i \in TopPages(infile)})
       /\ pageptr[num_pages + 1] = LineStart(infile, TrailerLine(infile))

\* a scan that found a page, passed over a %%Page: line that is not a page
\* boundary, and stopped at a trailer marker before the end of the file
C21_Witness ==
    /\ ScanDone
    /\ num_pages >= 1
    /\ \E i \in 1..Len(infile) : infile[i] = "Page" /\ i \notin TopPages(infile)
    /\ TrailerLine(infile) < Len(infile)

----------------------------------------------------------------------------
(* C22: the boundaries of the header and of the setup section              *)

\* write_header has been called and one of its copies raised an exception
HeaderCrashed ==
    /\ pc = "exit" /\ exit = "crash"
    /\ calls # <<>> /\ calls[Len(calls)].op = "write_header"

\* C22: after the scan neither the end of the header (headerpos) nor the
\* end of the setup section (endsetup) lies after the first page boundary
\* pageptr[0], so that every copy of write_header is over a byte range that
\* is not negative
C22_BoundariesBeforePages ==
    /\ ScanDone => headerpos <= pageptr[1] /\ endsetup <= pageptr[1]
    /\ ~HeaderCrashed

----------------------------------------------------------------------------
(* C23: the end of the header is fixed by the first line that sets it      *)

\* C23: once the scanner has set headerpos, no later line of the same scan
\* changes it
C23_HeaderEndFixed ==
    [][(pc = "scan" /\ headerpos # 0) => headerpos' = headerpos]_vars

----------------------------------------------------------------------------
(* C24: the copy of a region of the input that leaves out listed lines     *)

\* fcopy was called on its own and has ended
FcopyEnded == pc = "exit" /\ calls # <<>> /\ calls[Len(calls)].op = "fcopy"

FcopyHere == calls[1].n
FcopyUpto == calls[2].n
FcopyIgnore == calls[2].l

\* the offsets of the lines to leave out: those of the list that lie in
\* the region
Skipped == {FcopyIgnore[i] : i \in 1..Len(FcopyIgnore)} \cap (FcopyHere..(FcopyUpto - 1))

\* the bytes of the lines to leave out
SkippedBytes ==
    {p \in FcopyHere..(FcopyUpto - 1) :
        \E i \in 1..Len(infile) :
           LineStart(infile, i) \in Skipped
           /\ LineStart(infile, i) <= p /\ p < LineStart(infile, i + 1)}

RegionBytes ==
    [i \in 1..Len(SortedSeq((FcopyHere..(FcopyUpto - 1)) \ SkippedBytes)) |->
        Item("byte", SortedSeq((FcopyHere..(FcopyUpto - 1)) \ SkippedBytes)[i], <<>>)]

RECURSIVE Sweep(_, _)
\* one pass over the offsets from pos to upto that jumps over a listed line
Sweep(pos, ign) ==
    IF pos >= FcopyUpto THEN <<>>
    ELSE IF ign # <<>> /\ Head(ign) < pos THEN Sweep(pos, Tail(ign))
    ELSE IF ign # <<>> /\ Head(ign) = pos
    THEN Sweep(LineStart(infile, LineAt(infile, pos) + 1), Tail(ign))
    ELSE <<Item("byte", pos, <<>>)>> \o Sweep(pos + 1, ign)

\* C24: a call of fcopy(upto, ignorelist) at a position here <= upto, with
\* an ascending list of line starts that may have entries below here and at
\* or above upto, writes the bytes of [here, upto) less the lines that start
\* at a listed offset in the region, leaves the input at upto, removes from
\* the list exactly the entries below upto, and writes what one pass over
\* the sorted offsets would write
C24_RegionCopy ==
    FcopyEnded =>
       /\ exit = "ok"
       /\ out = RegionBytes
       /\ inpos = FcopyUpto
       /\ sizeheaders = SelectSeq(FcopyIgnore, LAMBDA x : x >= FcopyUpto)
       /\ out = Sweep(FcopyHere, FcopyIgnore)

\* the same for the calls whose list has no entry below the position of the
\* input
C24_RegionCopyWithin ==
    (FcopyEnded /\ \A i \in 1..Len(FcopyIgnore) : FcopyHere <= FcopyIgnore[i])
       => C24_RegionCopy

----------------------------------------------------------------------------
(* C25: the run of the driver transform_pages                              *)

CallsOf(op) == {i \in 1..Len(calls) : calls[i].op = op}

\* the number of turns of the cycle loop that a finished run has made
Cycles == Cardinality(CallsOf("write_page")) \div Len(specs)

\* C25: once the page list is built the run of the driver ends, and it ends
\* after one call of write_header, made before any page, maxpage / modulo
\* turns of the cycle loop, where maxpage is the least multiple of modulo
\* not below the length of the page list, and one call of finalize, made
\* after the last page
C25_DriverRun ==
    /\ (calls # <<>> /\ pc = "exit") => exit = "ok"
    /\ exit = "ok" =>
          /\ CallsOf("write_header") = {1}
          /\ CallsOf("finalize") = {Len(calls)}
          /\ \A i \in 2..(Len(calls) - 1) :
                calls[i].op = IF i % 2 = 0 THEN "write_page_comment" ELSE "write_page"
          /\ maxpage = modulo * CeilDiv(Len(page_list), modulo)
          /\ Cardinality(CallsOf("write_page")) = Cycles * Len(specs)
          /\ Cycles = maxpage \div modulo

\* the run of the driver ended in an endless loop of write_page
C25_Hang == pc = "exit" /\ exit = "hang"

----------------------------------------------------------------------------
(* C26: a cycle that is a permutation emits every page once                *)

\* the placements of one cycle have the same reversed flag and the page
\* numbers 0..modulo-1, each once
PermutationCycle ==
    /\ \A i, j \in 1..Len(Flatten(specs)) :
          Flatten(specs)[i].reversed = Flatten(specs)[j].reversed
    /\ Len(Flatten(specs)) = modulo
    /\ {Flatten(specs)[i].pageno : i \in 1..modulo} = 0..(modulo - 1)

\* the page bases of the cycles of a finished run
Bases == {(c - 1) * modulo : c \in 1..Cycles}

\* the cycles and placements that address index k of the page list
Addressing(k) ==
    {bj \in Bases \X (1..Len(Flatten(specs))) :
        page_index_to_page_number(Flatten(specs)[bj[2]], maxpage, modulo, bj[1]) = k}

\* the input pages that the calls of write_page copied, blank pages as Star
Sources == Flatten([i \in 1..Cardinality(CallsOf("write_page")) |->
                       calls[SortedSeq(CallsOf("write_page"))[i]].l])

Times(q, x) == Cardinality({i \in 1..Len(q) : q[i] = x})

\* C26: in a finished run with such a cycle the placements address the
\* indices 0..maxpage-1 of the page list, each once, so that every page of
\* the list is written once: no page is dropped and none is written twice
C26_EveryPageOnce ==
    (exit = "ok" /\ PermutationCycle) =>
       /\ \A b \in Bases : \A j \in 1..modulo :
             page_index_to_page_number(Flatten(specs)[j], maxpage, modulo, b)
                \in 0..(maxpage - 1)
       /\ \A k \in 0..(maxpage - 1) : Cardinality(Addressing(k)) = 1
       /\ Len(Sources) = maxpage
       /\ \A p \in 0..(num_pages - 1) : Times(Sources, p + 1) = Times(page_list, p)

\* a finished run of reversed placements, two to a cycle, over a page list
\* that holds pages of the input and a blank and does not fill its last cycle
C26_Witness ==
    /\ exit = "ok" /\ PermutationCycle
    /\ modulo = 2 /\ Flatten(specs)[1].reversed
    /\ Len(page_list) < maxpage
    /\ Times(page_list, -1) = 1
    /\ \E p \in 0..(num_pages - 1) : Times(page_list, p) = 1

----------------------------------------------------------------------------
(* C27: the index into the page list                                       *)

\* the cycle loop is at the page base pagebase: a page of the cycle is about
\* to be labelled or written
InCycle == pc = "page" \/ (pc = "loop" /\ pagebase < maxpage)

\* C27: for every page base that the cycle loop visits and every placement,
\* reversed or not, the index computed by page_index_to_page_number lies in
\* 0..maxpage-1; it is never negative
C27_IndexInRange ==
    InCycle =>
       \A i \in 1..Len(Flatten(specs)) :
          /\ page_index_to_page_number(Flatten(specs)[i], maxpage, modulo, pagebase) >= 0
          /\ page_index_to_page_number(Flatten(specs)[i], maxpage, modulo, pagebase)
                < maxpage

\* a later cycle of a run with a reversed placement that addresses index 0
\* and another placement that addresses index 1
C27_Witness ==
    /\ pc = "page" /\ pagebase > 0
    /\ \E i, j \in 1..Len(Flatten(specs)) :
          /\ Flatten(specs)[i].reversed
          /\ page_index_to_page_number(Flatten(specs)[i], maxpage, modulo, pagebase) = 0
          /\ page_index_to_page_number(Flatten(specs)[j], maxpage, modulo, pagebase) = 1

----------------------------------------------------------------------------
(* C28: the cells of the grid that psnup gives to the pages                *)

\* psnup has written the page specifications of the layout it chose
SpecsBuilt == args # None /\ layout # None /\ specText # <<>>

Cell(page) == <<Across(layout, page), Up(layout, page)>>

\* C28: for the layout horiz x vert chosen for N pages, horiz * vert = N
\* and the cells (across, up) of the pages 0..N-1 are the cells of the grid
\* {0..horiz-1} x {0..vert-1}: no two pages share a cell and no cell is left
\* empty, whatever the order of the cells, the directions and the rotation
C28_CellsBijective ==
    SpecsBuilt =>
       /\ layout.horiz * layout.vert = args.nup
       /\ \A p, q \in 0..(args.nup - 1) : Cell(p) = Cell(q) => p = q
       /\ {Cell(p) : p \in 0..(args.nup - 1)}
             = (0..(layout.horiz - 1)) \X (0..(layout.vert - 1))

\* the flags of a layout: the order of the cells, the two directions and
\* the rotation
FlagsOf(lay) == <<lay.rowmajor, lay.leftright, lay.topbottom, lay.rotate>>

\* a rotated layout of three columns and two rows, filled by columns from
\* the right and from the top
C28_Witness ==
    /\ SpecsBuilt
    /\ layout.horiz = 3 /\ layout.vert = 2
    /\ FlagsOf(layout) = <<FALSE, FALSE, TRUE, 1>>
    /\ Cell(0) = <<2, 1>> /\ Cell(1) = <<2, 0>>

----------------------------------------------------------------------------
(* C29: the pages selected when no page range is given                     *)

\* no page range and none of the flags odd, even and reverse
NoRange == rangeText = NoneText /\ ~odd /\ ~even /\ ~reverse

\* C29: without a page range and without the flags the page list is
\* 0, 1, ..., T-1 for a document of T scanned pages, and the run does not
\* die of its page range, also when the scanner found no page
C29_AllPagesSelected ==
    NoRange =>
       /\ PageListBuilt => page_list = [i \in 1..num_pages |-> i - 1]
       /\ ~RangeDied

====
